---- MODULE Spec2Model ----
(***************************************************************************)
(* LLM gateway: provider registry, provider adapters (OpenAI, Anthropic,   *)
(* Gemini, OpenRouter) with their streaming producers, and the server's    *)
(* stream-forwarding bridge (LLMServer.InvokeStream).                      *)
(*                                                                         *)
(* One server call (Invoke or InvokeStream) is modelled per behaviour.     *)
(* A streaming call spawns the adapter's producer goroutine; the producer  *)
(* and the bridge communicate through responseChan / errorChan, which are  *)
(* modelled as Go channels (FIFO buffer of the declared capacity, close    *)
(* flag, rendezvous when the capacity is 0).                                *)
(***************************************************************************)
EXTENDS Integers, Sequences, FiniteSets, TLC

VARIABLES
    providers,      \* LLMServer.providers: provider name -> adapter
    rpc,            \* which server operation was called: "none" | "invoke" | "stream"
    reqProvider,    \* req.Provider of the call
    bpc,            \* server call position: "idle" | "loop" | "returned"
    bret,           \* error returned by the server call (NilErr = nil)
    invokeResp,     \* response returned by server Invoke (NilResp = nil)
    sendCalls,      \* events passed to stream.Send, in call order
    terminalSeen,   \* bridge received an adapter error or a Send call failed
    adapterCalls,   \* number of calls of Invoke / InvokeStream on an adapter
    ctxDone,        \* stream.Context() is done (client disconnect / deadline)
    tctxDone,       \* OpenRouter: the context derived with the 60s timeout is done
    adapter,        \* the adapter serving the streaming call ("" = none)
    ppc,            \* producer goroutine position
    pending,        \* events of the current frame still to be sent on responseChan
    after,          \* where the producer goes once pending is empty: "read" | "ret"
    perr,           \* error the producer is about to send on errorChan
    usage,          \* the producer's local `usage` variable
    status,         \* HTTP status of the upstream response (0 = none yet)
    respBody,       \* body of an upstream response whose status is not 200
    nframes,        \* number of upstream lines / iterator items read so far
    responseChan,   \* buffer of the adapter's event channel
    respClosed,     \* number of close(responseChan) executed
    errorChan,      \* buffer of the adapter's error channel
    errClosed,      \* number of close(errorChan) executed
    emitted,        \* history: events sent on responseChan
    errsPlaced,     \* history: errors sent on errorChan
    lateSend,       \* history: a send happened on a channel already closed
    rpcr,           \* OpenRouter reader goroutine position
    dataChan,       \* OpenRouter streamProcessor: buffer of dataChan
    dataClosed,     \* OpenRouter streamProcessor: dataChan closed
    errChan,        \* OpenRouter streamProcessor: buffer of the internal errChan
    errChClosed,    \* OpenRouter streamProcessor: internal errChan closed
    upstream,       \* StreamSpec: the lines of the upstream response body
    streams,        \* CallsSpec: the concurrent InvokeStream calls on one adapter
    rdr,            \* ReadSpec: a buffered line reader over a response body
    unary,          \* InvokeSpec: one adapter, constructed and invoked once
    client,         \* ClientSpec: the in-process Client and one call on it
    mem,            \* UsageSpec: the UsageInfo objects of one Anthropic call
    conf            \* ConfigSpec: one Config and the adapters built from it

vars == <<providers, rpc, reqProvider, bpc, bret, invokeResp, sendCalls,
          terminalSeen, adapterCalls, ctxDone, tctxDone, adapter, ppc, pending,
          after, perr, usage, status, respBody, nframes, responseChan,
          respClosed, errorChan, errClosed, emitted, errsPlaced, lateSend, rpcr, dataChan,
          dataClosed, errChan, errChClosed, upstream, streams, rdr, unary, client, mem, conf>>

\* state of the single-adapter harnesses (StreamSpec, CallsSpec, ReadSpec)
harnessVars == <<upstream, streams, rdr, unary, client, mem, conf>>

serverVars == <<providers, rpc, reqProvider, bpc, bret, invokeResp, sendCalls,
                terminalSeen, adapterCalls>>
readerVars == <<rpcr, dataChan, dataClosed, errChan, errChClosed>>
chanVars   == <<responseChan, respClosed, errorChan, errClosed, emitted,
                errsPlaced, lateSend>>

----------------------------------------------------------------------------
(* Bounds *)

MaxFrames == 2      \* upstream lines / iterator items per streaming response

----------------------------------------------------------------------------
(* Program constants *)

StatusOK == 200                 \* http.StatusOK
OpenRouterRespChanCap == 1000   \* make(chan *pb.LLMStreamResponse, 1000)
LegacyRespChanCap == 100        \* make(chan *pb.LLMStreamResponse, 100)
DataChanCap == 100              \* make(chan string, 100)
ErrorChanCap == 1               \* make(chan error, 1)
AnthropicMinPrompt == 1024      \* PromptTokens: 1024, // Minimum value for caching

----------------------------------------------------------------------------
(* Values *)

Adapters == {"openai", "anthropic", "gemini", "openrouter", "openrouter_v1"}
HTTPAdapters == {"openai", "anthropic", "openrouter", "openrouter_v1"}

\* The registry built by main(): one entry per configured credential.  The
\* second registry is a deployment with only OPENROUTER_API_KEY set, running
\* the earlier OpenRouter adapter.
Registries ==
    { [n \in {"openai", "anthropic", "gemini", "openrouter"} |-> n],
      [n \in {"openrouter"} |-> "openrouter_v1"] }

\* Provider identifiers a request may carry.
RequestNames == {"openai", "anthropic", "gemini", "openrouter",
                 "OpenAI", "unknown", ""}

\* Upstream HTTP statuses of the initial response.
Statuses == {200, 201, 429}
Bodies == {"rate limited", "{}"}

\* error values: kind is the message prefix, code/detail what it carries,
\* cause the wrapped error's kind.
Err(kind, code, detail, cause) ==
    [kind |-> kind, code |-> code, detail |-> detail, cause |-> cause]
NilErr == Err("nil", 0, "", "")

\* pb.LLMStreamResponse
Ev(type, text, p, c, t) == [type |-> type, text |-> text, p |-> p, c |-> c, t |-> t]
ContentEv(s) == Ev("content", s, 0, 0, 0)
FinishEv(s)  == Ev("finish", s, 0, 0, 0)
UsageEv(u)   == Ev("usage", "", u.p, u.c, u.t)

\* *pb.UsageInfo held by the producer: nil or a value
NoUsage == [set |-> FALSE, p |-> 0, c |-> 0, t |-> 0]
Usage(p, c, t) == [set |-> TRUE, p |-> p, c |-> c, t |-> t]

\* pb.LLMResponse of the unary call
\* (the adapters' UsageInfo literals leave the two cache counts at zero)
NilResp == [nil |-> TRUE, content |-> "", p |-> 0, c |-> 0, t |-> 0,
            cacheRead |-> 0, cacheCreation |-> 0]
Resp(content, p, c, t) ==
    [nil |-> FALSE, content |-> content, p |-> p, c |-> c, t |-> t,
     cacheRead |-> 0, cacheCreation |-> 0]

\* One upstream line after unmarshalling into the vendor's streamResponseBody
\* (kind "json"), or a line that is blank / has no "data: " prefix ("skip"),
\* the sentinel ("done"), or a data line whose payload is not valid JSON
\* ("bad").  For Gemini: one iterator item with its text parts ("item").
Frame(kind, typ, choices, content, finish, hasUsage, p, c, t, parts) ==
    [kind |-> kind, typ |-> typ, choices |-> choices, content |-> content,
     finish |-> finish, hasUsage |-> hasUsage, p |-> p, c |-> c, t |-> t,
     parts |-> parts]
SkipFrame == Frame("skip", "", 0, "", "", FALSE, 0, 0, 0, <<>>)
DoneFrame == Frame("done", "", 0, "", "", FALSE, 0, 0, 0, <<>>)
BadFrame  == Frame("bad", "", 0, "", "", FALSE, 0, 0, 0, <<>>)
Delta(content, finish) == Frame("json", "", 1, content, finish, FALSE, 0, 0, 0, <<>>)
DeltaUsage(choices, content, p, c, t) ==
    Frame("json", "", choices, content, "", TRUE, p, c, t, <<>>)
Typed(typ, dtype, text, hasUsage, inTok, outTok) ==
    Frame("json", typ, 0, text, dtype, hasUsage, inTok, outTok, 0, <<>>)
Item(parts) == Frame("item", "", 0, "", "", FALSE, 0, 0, 0, parts)

DeltaFrames ==
    { SkipFrame, DoneFrame, BadFrame,
      Delta("a", ""), Delta("b", "stop"),
      DeltaUsage(1, "", 5, 2, 7) }

\* Anthropic: typ is the event type; `finish` holds delta.type, `content`
\* delta.text, p message.usage.input_tokens, c usage.output_tokens.
AnthropicFrames ==
    { DoneFrame, BadFrame,
      Typed("message_start", "", "", FALSE, 5, 0),
      Typed("content_block_delta", "text_delta", "a", FALSE, 0, 0),
      Typed("message_delta", "", "", TRUE, 0, 2),
      Typed("error", "", "", FALSE, 0, 0) }

GeminiItems == { Item(<<"a">>), Item(<<"", "b">>) }

FramesOf(a) ==
    IF a = "anthropic" THEN AnthropicFrames
    ELSE IF a = "gemini" THEN GeminiItems
    ELSE DeltaFrames

\* Capacity of the event channel each adapter creates.
RespChanCap(a) ==
    IF a = "openrouter" THEN OpenRouterRespChanCap
    ELSE IF a = "openrouter_v1" THEN LegacyRespChanCap
    ELSE 0

----------------------------------------------------------------------------
(* Frame handling: what one loop iteration of the producer does with one   *)
(* line.  Result: the events to send (in order), the new value of `usage`, *)
(* and how the iteration ends: "loop" (continue), "ret" (return) or "err"  *)
(* (send err on errorChan, then return).                                   *)

Step(events, u, next, err) == [events |-> events, usage |-> u, next |-> next, err |-> err]

\* a sentinel branch that emits the usage and goes on reading
OnDoneContinue(u) == Step(IF u.set THEN <<UsageEv(u)>> ELSE <<>>, u, "loop", NilErr)

\* data == "[DONE]": emit the stored usage, if any, and return
OnDone(u) == Step(IF u.set THEN <<UsageEv(u)>> ELSE <<>>, u, "ret", NilErr)

\* OpenAI: for scanner.Scan() { ... }
HandleOpenAI(f, u) ==
    IF f.kind = "skip" THEN Step(<<>>, u, "loop", NilErr)
    ELSE IF f.kind = "done" THEN OnDone(u)
    ELSE IF f.kind = "bad"
        THEN Step(<<>>, u, "err", Err("failed to parse chunk", 0, "", "json"))
    ELSE IF f.choices = 0 THEN Step(<<>>, u, "loop", NilErr)
    ELSE IF f.hasUsage THEN Step(<<>>, Usage(f.p, f.c, f.t), "loop", NilErr)
    ELSE IF f.content = "" THEN Step(<<>>, u, "loop", NilErr)
    ELSE Step(<<ContentEv(f.content)>>
                \o (IF f.finish # "" THEN <<FinishEv(f.finish)>> ELSE <<>>),
              u, "loop", NilErr)

\* OpenRouter (streamProcessor.process and the earlier inline loop)
HandleOpenRouter(f, u) ==
    IF f.kind = "skip" THEN Step(<<>>, u, "loop", NilErr)
    ELSE IF f.kind = "done" THEN OnDone(u)
    ELSE IF f.kind = "bad"
        THEN Step(<<>>, u, "err", Err("failed to parse SSE data", 0, "", "json"))
    ELSE IF f.choices = 0 THEN Step(<<>>, u, "loop", NilErr)
    ELSE Step((IF f.finish # "" THEN <<FinishEv(f.finish)>> ELSE <<>>)
                \o (IF f.content # "" THEN <<ContentEv(f.content)>> ELSE <<>>),
              IF f.hasUsage THEN Usage(f.p, f.c, f.t) ELSE u,
              "loop", NilErr)

\* a loop over the parts that sends a Content event for every part
TextEventsAll(parts) == [i \in 1..Len(parts) |-> ContentEv(parts[i])]

\* content blocks of an Anthropic frame: one Content event per non-empty text
RECURSIVE TextEvents(_)
TextEvents(parts) ==
    IF parts = <<>> THEN <<>>
    ELSE (IF Head(parts) # "" THEN <<ContentEv(Head(parts))>> ELSE <<>>)
            \o TextEvents(Tail(parts))

\* Anthropic: for scanner.Scan() { ... }
HandleAnthropic(f, u) ==
    IF f.kind = "skip" THEN Step(<<>>, u, "loop", NilErr)
    ELSE IF f.kind = "done" THEN OnDone(u)
    ELSE IF f.kind = "bad"
        THEN Step(<<>>, u, "err", Err("failed to parse SSE data", 0, "", "json"))
    ELSE
        LET start == f.typ = "message_start" /\ f.p > 0
            delta == ~start /\ f.typ = "message_delta" /\ f.hasUsage /\ f.c > 0
            base  == IF u.set THEN u ELSE Usage(AnthropicMinPrompt, 0, 0)
            u2    == IF start THEN Usage(f.p, 0, 0)
                     ELSE IF delta THEN Usage(base.p, f.c, base.p + f.c)
                     ELSE u
        IN  Step((IF delta THEN <<UsageEv(u2)>> ELSE <<>>)
                   \o TextEvents(f.parts)
                   \o (IF f.typ = "content_block_delta" /\ f.finish = "text_delta"
                         THEN <<ContentEv(f.content)>> ELSE <<>>),
                 u2, "loop", NilErr)

\* Gemini: the candidates' text parts of one iterator item
HandleGemini(f, u) == Step(TextEvents(f.parts), u, "loop", NilErr)

HandleFrame(a, f, u) ==
    IF a = "openai" THEN HandleOpenAI(f, u)
    ELSE IF a = "anthropic" THEN HandleAnthropic(f, u)
    ELSE IF a = "gemini" THEN HandleGemini(f, u)
    ELSE HandleOpenRouter(f, u)

----------------------------------------------------------------------------
(* Unary Invoke of an adapter: one blocking call, result from the upstream *)
(* reply.                                                                  *)

Reply(transportErr, st, parseOK, choices, content, p, c, t) ==
    [transportErr |-> transportErr, status |-> st, parseOK |-> parseOK,
     choices |-> choices, content |-> content, p |-> p, c |-> c, t |-> t]

Replies ==
    { Reply(TRUE, 0, FALSE, 0, "", 0, 0, 0),
      Reply(FALSE, 429, FALSE, 0, "", 0, 0, 0),
      Reply(FALSE, 200, FALSE, 0, "", 0, 0, 0),
      Reply(FALSE, 200, TRUE, 0, "", 0, 0, 0),
      Reply(FALSE, 200, TRUE, 1, "Hi", 5, 2, 7) }

Result(resp, err) == [resp |-> resp, err |-> err]

AdapterInvoke(a, r) ==
    IF a = "gemini" THEN
        IF r.transportErr \/ r.status # StatusOK \/ ~r.parseOK
            THEN Result(NilResp, Err("gemini: generate failed", 0, "", "upstream"))
        ELSE IF r.choices = 0
            THEN Result(NilResp, Err("gemini: no response generated", 0, "", ""))
        ELSE Result(Resp(r.content, 0, 0, 0), NilErr)
    ELSE IF r.transportErr
        THEN Result(NilResp, Err("failed to send request", 0, "", "transport"))
    ELSE IF r.status # StatusOK
        THEN Result(NilResp, Err("request failed with status", r.status, "body", ""))
    ELSE IF ~r.parseOK
        THEN Result(NilResp, Err("failed to parse response", 0, "", "json"))
    ELSE IF a = "anthropic"
        THEN Result(Resp(IF r.choices = 0 THEN "" ELSE r.content, r.p, r.c, r.p + r.c), NilErr)
    ELSE IF r.choices = 0
        THEN Result(NilResp, Err("no completion choices in response", 0, "", ""))
    ELSE Result(Resp(r.content, r.p, r.c, r.t), NilErr)

----------------------------------------------------------------------------
(* Initial state: server constructed by New(providers), no call yet.       *)

Init ==
    /\ providers \in Registries
    /\ rpc = "none"
    /\ reqProvider = ""
    /\ bpc = "idle"
    /\ bret = NilErr
    /\ invokeResp = NilResp
    /\ sendCalls = <<>>
    /\ terminalSeen = FALSE
    /\ adapterCalls = 0
    /\ ctxDone = FALSE
    /\ tctxDone = FALSE
    /\ adapter = ""
    /\ ppc = "idle"
    /\ pending = <<>>
    /\ after = "loop"
    /\ perr = NilErr
    /\ usage = NoUsage
    /\ status = 0
    /\ respBody = ""
    /\ nframes = 0
    /\ responseChan = <<>>
    /\ respClosed = 0
    /\ errorChan = <<>>
    /\ errClosed = 0
    /\ emitted = <<>>
    /\ errsPlaced = <<>>
    /\ lateSend = FALSE
    /\ rpcr = "idle"
    /\ dataChan = <<>>
    /\ dataClosed = FALSE
    /\ errChan = <<>>
    /\ errChClosed = FALSE
    /\ upstream = <<>>
    /\ streams = <<>>
    /\ rdr = <<>>
    /\ unary = <<>>
    /\ client = <<>>
    /\ mem = <<>>
    /\ conf = <<>>

----------------------------------------------------------------------------
(* Provider registry *)

\* identifiers folded to lower case
Fold(name) == IF name = "OpenAI" THEN "openai" ELSE name

\* a lookup that ignores the identifier's case
getProviderFold(name) ==
    IF Fold(name) \in DOMAIN providers
        THEN [p |-> providers[Fold(name)], err |-> NilErr]
        ELSE [p |-> "", err |-> Err("unsupported provider", 0, name, "")]

\* LLMServer.getProvider: p, ok := s.providers[name]
getProvider(name) ==
    IF name \in DOMAIN providers
        THEN [p |-> providers[name], err |-> NilErr]
        ELSE [p |-> "", err |-> Err("unsupported provider", 0, name, "")]

----------------------------------------------------------------------------
(* Server operations *)

prodVars == <<adapter, ppc, pending, after, perr, usage, status, respBody, nframes>>

\* LLMServer.Invoke: lookup, then the adapter's blocking Invoke.
Invoke(name) ==
    /\ bpc = "idle"
    /\ rpc' = "invoke"
    /\ reqProvider' = name
    /\ bpc' = "returned"
    /\ LET g == getProvider(name) IN
        IF g.err # NilErr
        THEN /\ bret' = g.err
             /\ invokeResp' = NilResp
             /\ adapterCalls' = adapterCalls
        ELSE \E r \in Replies :
                LET res == AdapterInvoke(g.p, r) IN
                /\ bret' = res.err
                /\ invokeResp' = res.resp
                /\ adapterCalls' = adapterCalls + 1
    /\ UNCHANGED <<providers, sendCalls, terminalSeen, ctxDone, tctxDone>>
    /\ UNCHANGED <<prodVars, chanVars, readerVars>>
    /\ UNCHANGED harnessVars

\* LLMServer.InvokeStream up to the select loop: lookup, then the adapter's
\* InvokeStream, which creates the two channels and starts the producer.
InvokeStream(name) ==
    /\ bpc = "idle"
    /\ rpc' = "stream"
    /\ reqProvider' = name
    /\ LET g == getProvider(name) IN
        IF g.err # NilErr
        THEN /\ bret' = g.err
             /\ bpc' = "returned"
             /\ UNCHANGED <<adapterCalls, adapter, ppc>>
        ELSE /\ bret' = bret
             /\ bpc' = "loop"
             /\ adapterCalls' = adapterCalls + 1
             /\ adapter' = g.p
             /\ ppc' = "request"
    /\ UNCHANGED <<providers, invokeResp, sendCalls, terminalSeen, ctxDone, tctxDone>>
    /\ UNCHANGED <<pending, after, perr, usage, status, respBody, nframes>>
    /\ UNCHANGED <<chanVars, readerVars>>
    /\ UNCHANGED harnessVars

\* The outbound stream's context ends (client disconnect or deadline).  The
\* context OpenRouter derives from it is canceled with it.
CancelCtx ==
    /\ rpc = "stream"
    /\ ~ctxDone
    /\ ctxDone' = TRUE
    /\ tctxDone' = TRUE
    /\ UNCHANGED <<serverVars, prodVars, chanVars, readerVars>>
    /\ UNCHANGED harnessVars

\* OpenRouter: context.WithTimeout(ctx, 60*time.Second) expires.
Timeout ==
    /\ adapter = "openrouter"
    /\ ppc \notin {"idle", "done"}
    /\ ~tctxDone
    /\ tctxDone' = TRUE
    /\ UNCHANGED <<ctxDone, serverVars, prodVars, chanVars, readerVars>>
    /\ UNCHANGED harnessVars

----------------------------------------------------------------------------
(* The adapter's producer goroutine (go func() { ... }() of InvokeStream)  *)

\* the context the producer and its HTTP request observe
PCtxDone == IF adapter = "openrouter" THEN tctxDone ELSE ctxDone

\* top of the producer's read loop
LoopPc == IF adapter = "openrouter" THEN "select" ELSE "read"

NextPc(next) == IF next = "ret" THEN "ret" ELSE LoopPc

\* a status check that lets every status below 400 through
IsErrorStatus4xx(st) == st >= 400

\* if resp.StatusCode != http.StatusOK
IsErrorStatus(st) == st # StatusOK

\* the effect of one loop iteration on the producer's variables
Apply(step) ==
    /\ usage' = step.usage
    /\ IF step.next = "err"
       THEN /\ perr' = step.err
            /\ ppc' = "senderr"
            /\ UNCHANGED <<pending, after>>
       ELSE IF step.events = <<>>
       THEN /\ ppc' = NextPc(step.next)
            /\ UNCHANGED <<pending, after, perr>>
       ELSE /\ pending' = step.events
            /\ after' = step.next
            /\ ppc' = "send"
            /\ UNCHANGED perr

\* client.Do(httpReq) and the status check; Gemini: SendMessageStream, which
\* only creates the iterator.
ProdRequest ==
    /\ ppc = "request"
    /\ IF adapter = "gemini"
       THEN /\ ppc' = "read"
            /\ UNCHANGED <<status, respBody, perr, rpcr>>
       ELSE \E st \in {0} \cup Statuses, body \in Bodies :
            /\ st # 0 => ~PCtxDone
            /\ status' = st
            /\ respBody' = IF st \in {0, StatusOK} THEN "" ELSE body
            /\ IF st = 0
               THEN /\ perr' = Err("failed to send request", 0, "", "transport")
                    /\ ppc' = "senderr"
                    /\ UNCHANGED rpcr
               ELSE IF IsErrorStatus(st)
               THEN /\ perr' = Err("request failed with status", st, respBody', "")
                    /\ ppc' = "senderr"
                    /\ UNCHANGED rpcr
               ELSE /\ ppc' = LoopPc
                    /\ rpcr' = IF adapter = "openrouter" THEN "read" ELSE rpcr
                    /\ UNCHANGED perr
    /\ UNCHANGED <<adapter, pending, after, usage, nframes>>
    /\ UNCHANGED <<serverVars, ctxDone, tctxDone, chanVars>>
    /\ UNCHANGED <<dataChan, dataClosed, errChan, errChClosed>>
    /\ UNCHANGED harnessVars

\* One read of the response body in the producer's own loop (scanner.Scan,
\* reader.ReadString, iter.Next) and the handling of what it returned.
ProdReadFrame ==
    /\ ppc = "read"
    /\ nframes < MaxFrames
    /\ \E f \in FramesOf(adapter) :
        /\ nframes' = nframes + 1
        /\ Apply(HandleFrame(adapter, f, usage))
    /\ UNCHANGED <<adapter, status, respBody>>
    /\ UNCHANGED <<serverVars, ctxDone, tctxDone, chanVars, readerVars>>
    /\ UNCHANGED harnessVars

\* The body ends: Scan returns false with a nil Err, ReadString returns
\* io.EOF, the iterator returns iterator.Done.
ProdReadEOF ==
    /\ ppc = "read"
    /\ IF adapter = "gemini"
       THEN Apply(Step(<<FinishEv("stop")>>, usage, "ret", NilErr))
       ELSE Apply(Step(<<>>, usage, "ret", NilErr))
    /\ UNCHANGED <<adapter, status, respBody, nframes>>
    /\ UNCHANGED <<serverVars, ctxDone, tctxDone, chanVars, readerVars>>
    /\ UNCHANGED harnessVars

\* The read fails (transport error, or the request's context is canceled).
ProdReadError ==
    /\ ppc = "read"
    /\ Apply(Step(<<>>, usage, "err",
                  IF adapter = "gemini"
                  THEN Err("gemini: stream failed", 0, "", "read")
                  ELSE Err("error reading stream", 0, "", "read")))
    /\ UNCHANGED <<adapter, status, respBody, nframes>>
    /\ UNCHANGED <<serverVars, ctxDone, tctxDone, chanVars, readerVars>>
    /\ UNCHANGED harnessVars

\* Earlier OpenRouter loop: select { case <-ctx.Done(): return; default: }
ProdCheckCtx ==
    /\ ppc = "read"
    /\ adapter = "openrouter_v1"
    /\ ctxDone
    /\ ppc' = "ret"
    /\ UNCHANGED <<adapter, pending, after, perr, usage, status, respBody, nframes>>
    /\ UNCHANGED <<serverVars, ctxDone, tctxDone, chanVars, readerVars>>
    /\ UNCHANGED harnessVars

\* the producer's position after the head of `pending` is dealt with
AfterSend ==
    /\ pending' = Tail(pending)
    /\ ppc' = IF Tail(pending) = <<>> THEN NextPc(after) ELSE "send"
    /\ UNCHANGED <<adapter, after, perr, usage, status, respBody, nframes>>

\* responseChan <- resp on a buffered channel: proceeds when there is room.
ProdSend ==
    /\ ppc = "send"
    /\ Len(responseChan) < RespChanCap(adapter)
    /\ responseChan' = Append(responseChan, Head(pending))
    /\ emitted' = Append(emitted, Head(pending))
    /\ lateSend' = (lateSend \/ respClosed > 0)
    /\ AfterSend
    /\ UNCHANGED <<respClosed, errorChan, errClosed, errsPlaced>>
    /\ UNCHANGED <<serverVars, ctxDone, tctxDone, readerVars>>
    /\ UNCHANGED harnessVars

\* streamProcessor.sendResponse: the ctx.Done() case of its select; the
\* response is not sent.
ProdSendCtxDone ==
    /\ ppc = "send"
    /\ adapter = "openrouter"
    /\ tctxDone
    /\ AfterSend
    /\ UNCHANGED <<serverVars, ctxDone, tctxDone, chanVars, readerVars>>
    /\ UNCHANGED harnessVars

\* an error path that puts the error on errorChan and goes on with the loop
ProdSendErrContinue ==
    /\ ppc = "senderr"
    /\ Len(errorChan) < ErrorChanCap
    /\ errorChan' = Append(errorChan, perr)
    /\ errsPlaced' = Append(errsPlaced, perr)
    /\ lateSend' = (lateSend \/ errClosed > 0)
    /\ ppc' = LoopPc
    /\ UNCHANGED <<adapter, pending, after, perr, usage, status, respBody, nframes>>
    /\ UNCHANGED <<responseChan, respClosed, errClosed, emitted>>
    /\ UNCHANGED <<serverVars, ctxDone, tctxDone, readerVars>>
    /\ UNCHANGED harnessVars

\* an error path that puts the error on errorChan and issues the request
\* again
ProdSendErrRetry ==
    /\ ppc = "senderr"
    /\ Len(errorChan) < ErrorChanCap
    /\ errorChan' = Append(errorChan, perr)
    /\ errsPlaced' = Append(errsPlaced, perr)
    /\ lateSend' = (lateSend \/ errClosed > 0)
    /\ ppc' = "request"
    /\ UNCHANGED <<adapter, pending, after, perr, usage, status, respBody, nframes>>
    /\ UNCHANGED <<responseChan, respClosed, errClosed, emitted>>
    /\ UNCHANGED <<serverVars, ctxDone, tctxDone, readerVars>>
    /\ UNCHANGED harnessVars

\* errorChan <- err
ProdSendErr ==
    /\ ppc = "senderr"
    /\ Len(errorChan) < ErrorChanCap
    /\ errorChan' = Append(errorChan, perr)
    /\ errsPlaced' = Append(errsPlaced, perr)
    /\ lateSend' = (lateSend \/ errClosed > 0)
    /\ ppc' = "ret"
    /\ UNCHANGED <<adapter, pending, after, perr, usage, status, respBody, nframes>>
    /\ UNCHANGED <<responseChan, respClosed, errClosed, emitted>>
    /\ UNCHANGED <<serverVars, ctxDone, tctxDone, readerVars>>
    /\ UNCHANGED harnessVars

\* a return whose first deferred call closes responseChan
ProdCloseRespFirst ==
    /\ ppc = "ret"
    /\ respClosed' = respClosed + 1
    /\ tctxDone' = IF adapter = "openrouter" THEN TRUE ELSE tctxDone
    /\ ppc' = "ret2"
    /\ UNCHANGED <<adapter, pending, after, perr, usage, status, respBody, nframes>>
    /\ UNCHANGED <<responseChan, errClosed, errorChan, emitted, errsPlaced, lateSend>>
    /\ UNCHANGED <<serverVars, ctxDone, readerVars>>
    /\ UNCHANGED harnessVars

\* The producer returns; deferred calls run last-registered first:
\* (OpenRouter: cancel(),) close(errorChan), ...
ProdCloseErr ==
    /\ ppc = "ret"
    /\ errClosed' = errClosed + 1
    /\ tctxDone' = IF adapter = "openrouter" THEN TRUE ELSE tctxDone
    /\ ppc' = "ret2"
    /\ UNCHANGED <<adapter, pending, after, perr, usage, status, respBody, nframes>>
    /\ UNCHANGED <<responseChan, respClosed, errorChan, emitted, errsPlaced, lateSend>>
    /\ UNCHANGED <<serverVars, ctxDone, readerVars>>
    /\ UNCHANGED harnessVars

\* a return path that leaves responseChan open
ProdReturnNoClose ==
    /\ ppc = "ret2"
    /\ ppc' = "done"
    /\ UNCHANGED <<adapter, pending, after, perr, usage, status, respBody, nframes>>
    /\ UNCHANGED <<serverVars, ctxDone, tctxDone, chanVars, readerVars>>
    /\ UNCHANGED harnessVars

\* ... then close(responseChan).
ProdCloseResp ==
    /\ ppc = "ret2"
    /\ respClosed' = respClosed + 1
    /\ ppc' = "done"
    /\ UNCHANGED <<adapter, pending, after, perr, usage, status, respBody, nframes>>
    /\ UNCHANGED <<responseChan, errorChan, errClosed, emitted, errsPlaced, lateSend>>
    /\ UNCHANGED <<serverVars, ctxDone, tctxDone, readerVars>>
    /\ UNCHANGED harnessVars

----------------------------------------------------------------------------
(* OpenRouter streamProcessor.process: the processing loop's select        *)

\* case <-sp.ctx.Done(): return
ProcCtxDone ==
    /\ ppc = "select"
    /\ tctxDone
    /\ ppc' = "ret"
    /\ UNCHANGED <<adapter, pending, after, perr, usage, status, respBody, nframes>>
    /\ UNCHANGED <<serverVars, ctxDone, tctxDone, chanVars, readerVars>>
    /\ UNCHANGED harnessVars

\* case err := <-errChan, a value received: sp.errorChan <- err; return
ProcErr ==
    /\ ppc = "select"
    /\ errChan # <<>>
    /\ errChan' = Tail(errChan)
    /\ perr' = Head(errChan)
    /\ ppc' = "senderr"
    /\ UNCHANGED <<adapter, pending, after, usage, status, respBody, nframes>>
    /\ UNCHANGED <<rpcr, dataChan, dataClosed, errChClosed>>
    /\ UNCHANGED <<serverVars, ctxDone, tctxDone, chanVars>>
    /\ UNCHANGED harnessVars

\* case err := <-errChan on the closed channel: err is nil; return
ProcErrClosed ==
    /\ ppc = "select"
    /\ errChan = <<>>
    /\ errChClosed
    /\ ppc' = "ret"
    /\ UNCHANGED <<adapter, pending, after, perr, usage, status, respBody, nframes>>
    /\ UNCHANGED <<serverVars, ctxDone, tctxDone, chanVars, readerVars>>
    /\ UNCHANGED harnessVars

\* case line, ok := <-dataChan with ok: handle the line
ProcData ==
    /\ ppc = "select"
    /\ dataChan # <<>>
    /\ dataChan' = Tail(dataChan)
    /\ Apply(HandleFrame(adapter, Head(dataChan), usage))
    /\ UNCHANGED <<adapter, status, respBody, nframes>>
    /\ UNCHANGED <<rpcr, dataClosed, errChan, errChClosed>>
    /\ UNCHANGED <<serverVars, ctxDone, tctxDone, chanVars>>
    /\ UNCHANGED harnessVars

\* case line, ok := <-dataChan with !ok: return
ProcDataClosed ==
    /\ ppc = "select"
    /\ dataChan = <<>>
    /\ dataClosed
    /\ ppc' = "ret"
    /\ UNCHANGED <<adapter, pending, after, perr, usage, status, respBody, nframes>>
    /\ UNCHANGED <<serverVars, ctxDone, tctxDone, chanVars, readerVars>>
    /\ UNCHANGED harnessVars

(* OpenRouter streamProcessor.process: the reading goroutine               *)

\* case <-sp.ctx.Done(): return  (before the read, or instead of the send)
ReaderCtxDone ==
    /\ rpcr = "read"
    /\ tctxDone
    /\ rpcr' = "ret"
    /\ UNCHANGED <<dataChan, dataClosed, errChan, errChClosed>>
    /\ UNCHANGED <<serverVars, ctxDone, tctxDone, prodVars, chanVars>>
    /\ UNCHANGED harnessVars

\* line, err := sp.reader.ReadString('\n') with a line; dataChan <- line
ReaderLine ==
    /\ rpcr = "read"
    /\ nframes < MaxFrames
    /\ Len(dataChan) < DataChanCap
    /\ \E f \in FramesOf(adapter) : dataChan' = Append(dataChan, f)
    /\ nframes' = nframes + 1
    /\ UNCHANGED <<rpcr, dataClosed, errChan, errChClosed>>
    /\ UNCHANGED <<adapter, ppc, pending, after, perr, usage, status, respBody>>
    /\ UNCHANGED <<serverVars, ctxDone, tctxDone, chanVars>>
    /\ UNCHANGED harnessVars

\* ReadString returns io.EOF: return without an error
ReaderEOF ==
    /\ rpcr = "read"
    /\ rpcr' = "ret"
    /\ UNCHANGED <<dataChan, dataClosed, errChan, errChClosed>>
    /\ UNCHANGED <<serverVars, ctxDone, tctxDone, prodVars, chanVars>>
    /\ UNCHANGED harnessVars

\* ReadString returns another error: errChan <- err; return
ReaderError ==
    /\ rpcr = "read"
    /\ Len(errChan) < ErrorChanCap
    /\ errChan' = Append(errChan, Err("error reading stream", 0, "", "read"))
    /\ rpcr' = "ret"
    /\ UNCHANGED <<dataChan, dataClosed, errChClosed>>
    /\ UNCHANGED <<serverVars, ctxDone, tctxDone, prodVars, chanVars>>
    /\ UNCHANGED harnessVars

\* deferred close(errChan) runs first ...
ReaderCloseErr ==
    /\ rpcr = "ret"
    /\ errChClosed' = TRUE
    /\ rpcr' = "ret2"
    /\ UNCHANGED <<dataChan, dataClosed, errChan>>
    /\ UNCHANGED <<serverVars, ctxDone, tctxDone, prodVars, chanVars>>
    /\ UNCHANGED harnessVars

\* ... then close(dataChan)
ReaderCloseData ==
    /\ rpcr = "ret2"
    /\ dataClosed' = TRUE
    /\ rpcr' = "done"
    /\ UNCHANGED <<dataChan, errChan, errChClosed>>
    /\ UNCHANGED <<serverVars, ctxDone, tctxDone, prodVars, chanVars>>
    /\ UNCHANGED harnessVars

----------------------------------------------------------------------------
(* The bridge: the select loop of LLMServer.InvokeStream.  A select with   *)
(* several ready cases takes any one of them.                              *)

\* a bridge that calls stream.Send a second time with the same response
ForwardTwice(calls, e) == calls \o <<e, e>>

\* stream.Send(resp): the call is made with resp
Forward(calls, e) == Append(calls, e)

\* stream.Send(resp) returned ok / an error
AfterForward(e, ok) ==
    /\ sendCalls' = Forward(sendCalls, e)
    /\ IF ok
       THEN UNCHANGED <<bpc, bret, terminalSeen>>
       ELSE /\ bret' = Err("failed to send response", 0, "", "send")
            /\ bpc' = "returned"
            /\ terminalSeen' = TRUE
    /\ UNCHANGED <<providers, rpc, reqProvider, invokeResp, adapterCalls>>

\* case resp, ok := <-respChan with ok, from the channel's buffer
BridgeRecvBuffered ==
    /\ bpc = "loop"
    /\ responseChan # <<>>
    /\ responseChan' = Tail(responseChan)
    /\ \E ok \in BOOLEAN : AfterForward(Head(responseChan), ok)
    /\ UNCHANGED <<respClosed, errorChan, errClosed, emitted, errsPlaced, lateSend>>
    /\ UNCHANGED <<ctxDone, tctxDone, prodVars, readerVars>>
    /\ UNCHANGED harnessVars

\* case resp, ok := <-respChan with ok, on an unbuffered channel: the
\* producer's pending send and this receive happen together
BridgeRecvRendezvous ==
    /\ bpc = "loop"
    /\ RespChanCap(adapter) = 0
    /\ ppc = "send"
    /\ emitted' = Append(emitted, Head(pending))
    /\ lateSend' = (lateSend \/ respClosed > 0)
    /\ AfterSend
    /\ \E ok \in BOOLEAN : AfterForward(Head(pending), ok)
    /\ UNCHANGED <<responseChan, respClosed, errorChan, errClosed, errsPlaced>>
    /\ UNCHANGED <<ctxDone, tctxDone, readerVars>>
    /\ UNCHANGED harnessVars

\* case resp, ok := <-respChan with !ok: return nil
BridgeRespClosed ==
    /\ bpc = "loop"
    /\ responseChan = <<>>
    /\ respClosed > 0
    /\ bpc' = "returned"
    /\ bret' = NilErr
    /\ UNCHANGED <<providers, rpc, reqProvider, invokeResp, sendCalls,
                   terminalSeen, adapterCalls>>
    /\ UNCHANGED <<ctxDone, tctxDone, prodVars, chanVars, readerVars>>
    /\ UNCHANGED harnessVars

\* a bridge that takes the adapter's error and stays in its loop
BridgeRecvErrContinue ==
    /\ bpc = "loop"
    /\ errorChan # <<>>
    /\ errorChan' = Tail(errorChan)
    /\ terminalSeen' = TRUE
    /\ UNCHANGED <<providers, rpc, reqProvider, bpc, bret, invokeResp, sendCalls,
                   adapterCalls>>
    /\ UNCHANGED <<responseChan, respClosed, errClosed, emitted, errsPlaced, lateSend>>
    /\ UNCHANGED <<ctxDone, tctxDone, prodVars, readerVars>>
    /\ UNCHANGED harnessVars

\* case err, ok := <-errChan with ok && err != nil: return the wrapped error
BridgeRecvErr ==
    /\ bpc = "loop"
    /\ errorChan # <<>>
    /\ errorChan' = Tail(errorChan)
    /\ bpc' = "returned"
    /\ bret' = Err("provider error", Head(errorChan).code,
                   Head(errorChan).detail, Head(errorChan).kind)
    /\ terminalSeen' = TRUE
    /\ UNCHANGED <<providers, rpc, reqProvider, invokeResp, sendCalls, adapterCalls>>
    /\ UNCHANGED <<responseChan, respClosed, errClosed, emitted, errsPlaced, lateSend>>
    /\ UNCHANGED <<ctxDone, tctxDone, prodVars, readerVars>>
    /\ UNCHANGED harnessVars

\* case err, ok := <-errChan with !ok: return nil
BridgeErrClosed ==
    /\ bpc = "loop"
    /\ errorChan = <<>>
    /\ errClosed > 0
    /\ bpc' = "returned"
    /\ bret' = NilErr
    /\ UNCHANGED <<providers, rpc, reqProvider, invokeResp, sendCalls,
                   terminalSeen, adapterCalls>>
    /\ UNCHANGED <<ctxDone, tctxDone, prodVars, chanVars, readerVars>>
    /\ UNCHANGED harnessVars

\* case <-stream.Context().Done(): return stream.Context().Err()
BridgeCtxDone ==
    /\ bpc = "loop"
    /\ ctxDone
    /\ bpc' = "returned"
    /\ bret' = Err("context canceled", 0, "", "ctx")
    /\ UNCHANGED <<providers, rpc, reqProvider, invokeResp, sendCalls,
                   terminalSeen, adapterCalls>>
    /\ UNCHANGED <<ctxDone, tctxDone, prodVars, chanVars, readerVars>>
    /\ UNCHANGED harnessVars

----------------------------------------------------------------------------

Producer ==
    \/ ProdRequest \/ ProdReadFrame \/ ProdReadEOF \/ ProdReadError
    \/ ProdCheckCtx \/ ProdSend \/ ProdSendCtxDone \/ ProdSendErr
    \/ ProdCloseErr \/ ProdCloseResp
    \/ ProcCtxDone \/ ProcErr \/ ProcErrClosed \/ ProcData \/ ProcDataClosed

Reader ==
    \/ ReaderCtxDone \/ ReaderLine \/ ReaderEOF \/ ReaderError
    \/ ReaderCloseErr \/ ReaderCloseData

Bridge ==
    \/ BridgeRecvBuffered \/ BridgeRecvRendezvous \/ BridgeRespClosed
    \/ BridgeRecvErr \/ BridgeErrClosed \/ BridgeCtxDone

Next ==
    \/ \E name \in RequestNames : Invoke(name)
    \/ \E name \in RequestNames : InvokeStream(name)
    \/ CancelCtx
    \/ Timeout
    \/ Producer
    \/ Reader
    \/ Bridge

Spec == Init /\ [][Next]_vars

\* Scheduling: a goroutine that can take a step eventually takes one.  The
\* upstream eventually answers each read; nothing obliges the client to
\* disconnect or the timeout to expire.
FairSpec ==
    /\ Spec
    /\ WF_vars(Producer)
    /\ WF_vars(Reader)
    /\ WF_vars(Bridge)

----------------------------------------------------------------------------
(* One streaming call of one adapter on its own: the producer goroutine of *)
(* InvokeStream with a consumer that receives every event as it is sent    *)
(* (`for resp := range responseChan` in the adapters' tests) and no        *)
(* cancellation.  The upstream response (status 200) is fixed when the     *)
(* call starts, as the sequence of its lines; nframes counts the lines     *)
(* read.  The adapters here read and handle the lines in one goroutine.    *)

MaxBody == 3        \* lines / iterator items of an upstream response

StreamAdapters == {"openai", "anthropic", "gemini", "openrouter_v1"}

\* lines of a delta-style (OpenAI, OpenRouter) response
DeltaLines ==
    DeltaFrames \cup
        { Delta("", "stop"),
          DeltaUsage(1, "c", 5, 2, 7),
          DeltaUsage(0, "", 6, 3, 9) }

\* lines of an Anthropic response
AnthropicLines ==
    AnthropicFrames \cup
        { Typed("message_start", "", "", FALSE, 3, 0),
          Typed("message_delta", "", "", TRUE, 0, 1),
          Frame("json", "error", 0, "", "", FALSE, 0, 0, 0, <<"Rate limit exceeded">>) }

LinesOf(a) ==
    IF a = "anthropic" THEN AnthropicLines
    ELSE IF a = "gemini" THEN GeminiItems
    ELSE DeltaLines

ResponseBodies(a) == UNION { [1..n -> LinesOf(a)] : n \in 0..MaxBody }

\* the producer is at the top of its read loop, the response has status 200
StreamInit ==
    /\ providers = <<>>
    /\ rpc = "none"
    /\ reqProvider = ""
    /\ bpc = "idle"
    /\ bret = NilErr
    /\ invokeResp = NilResp
    /\ sendCalls = <<>>
    /\ terminalSeen = FALSE
    /\ adapterCalls = 0
    /\ ctxDone = FALSE
    /\ tctxDone = FALSE
    /\ adapter \in StreamAdapters
    /\ ppc = "read"
    /\ pending = <<>>
    /\ after = "loop"
    /\ perr = NilErr
    /\ usage = NoUsage
    /\ status = StatusOK
    /\ respBody = ""
    /\ nframes = 0
    /\ responseChan = <<>>
    /\ respClosed = 0
    /\ errorChan = <<>>
    /\ errClosed = 0
    /\ emitted = <<>>
    /\ errsPlaced = <<>>
    /\ lateSend = FALSE
    /\ rpcr = "idle"
    /\ dataChan = <<>>
    /\ dataClosed = FALSE
    /\ errChan = <<>>
    /\ errChClosed = FALSE
    /\ upstream \in ResponseBodies(adapter)
    /\ streams = <<>>
    /\ rdr = <<>>
    /\ unary = <<>>
    /\ client = <<>>
    /\ mem = <<>>
    /\ conf = <<>>

\* One iteration of the read loop on the next line of the body: its events
\* are sent (and received) in order, an error goes to errorChan.
ScanLine ==
    /\ ppc = "read"
    /\ nframes < Len(upstream)
    /\ LET step == HandleFrame(adapter, upstream[nframes + 1], usage) IN
        /\ nframes' = nframes + 1
        /\ usage' = step.usage
        /\ emitted' = emitted \o step.events
        /\ errsPlaced' = IF step.next = "err"
                         THEN Append(errsPlaced, step.err) ELSE errsPlaced
        /\ errorChan' = IF step.next = "err"
                        THEN Append(errorChan, step.err) ELSE errorChan
        /\ ppc' = IF step.next = "loop" THEN "read" ELSE "ret"
    /\ UNCHANGED <<adapter, pending, after, perr, status, respBody>>
    /\ UNCHANGED <<responseChan, respClosed, errClosed, lateSend>>
    /\ UNCHANGED <<serverVars, ctxDone, tctxDone, readerVars>>
    /\ UNCHANGED <<upstream, streams, rdr, unary, client, mem, conf>>

\* The body has no more lines: Scan returns false with a nil Err (ReadString
\* returns io.EOF); Gemini's iterator returns iterator.Done.
ScanEOF ==
    /\ ppc = "read"
    /\ nframes = Len(upstream)
    /\ emitted' = IF adapter = "gemini"
                  THEN Append(emitted, FinishEv("stop")) ELSE emitted
    /\ ppc' = "ret"
    /\ UNCHANGED <<adapter, pending, after, perr, usage, status, respBody, nframes>>
    /\ UNCHANGED <<responseChan, respClosed, errorChan, errClosed, errsPlaced, lateSend>>
    /\ UNCHANGED <<serverVars, ctxDone, tctxDone, readerVars>>
    /\ UNCHANGED <<upstream, streams, rdr, unary, client, mem, conf>>

\* The read fails in the middle of the body (the connection breaks).
ScanError ==
    /\ ppc = "read"
    /\ LET e == IF adapter = "gemini"
                THEN Err("gemini: stream failed", 0, "", "read")
                ELSE Err("error reading stream", 0, "", "read") IN
        /\ errsPlaced' = Append(errsPlaced, e)
        /\ errorChan' = Append(errorChan, e)
    /\ ppc' = "ret"
    /\ UNCHANGED <<adapter, pending, after, perr, usage, status, respBody, nframes>>
    /\ UNCHANGED <<responseChan, respClosed, errClosed, emitted, lateSend>>
    /\ UNCHANGED <<serverVars, ctxDone, tctxDone, readerVars>>
    /\ UNCHANGED <<upstream, streams, rdr, unary, client, mem, conf>>

StreamNext ==
    \/ ScanLine
    \/ ScanEOF
    \/ ScanError
    \/ ProdCloseErr
    \/ ProdCloseResp

StreamSpec == StreamInit /\ [][StreamNext]_vars

----------------------------------------------------------------------------
(* Concurrent InvokeStream calls on one adapter instance.  Each call makes *)
(* its own responseChan and errorChan and starts its own goroutine, whose  *)
(* `usage`, scanner and HTTP response are locals of that goroutine; the    *)
(* Provider's fields (config, httpClient) are only read.  streams[i] is    *)
(* call i: its goroutine's position and locals, the lines it has read from *)
(* its own upstream response, and what the consumer of its channels got.   *)

MaxCalls == 2        \* concurrent calls on the adapter
MaxCallFrames == 2   \* lines / items read by one call

CallIds == 1..MaxCalls

\* the adapters whose calls are run side by side (the OpenRouter loops handle
\* a line like the OpenAI one and keep the same per-call locals)
CallAdapters == {"openai", "anthropic", "gemini"}

\* text that only call i's upstream response carries
Txt(i) == <<"one", "two", "three", "four">>[i]

\* lines of the upstream response of call i (an Anthropic response has no
\* sentinel line: it ends with the end of the body)
CallLines(a, i) ==
    IF a = "anthropic"
        THEN { Typed("content_block_delta", "text_delta", Txt(i), FALSE, 0, 0),
               Typed("message_delta", "", "", TRUE, 0, i) }
    ELSE IF a = "gemini"
        THEN { Item(<<Txt(i)>>) }
    ELSE { Delta(Txt(i), ""), DeltaUsage(1, "", i, i, 2 * i), DoneFrame }

NewCall ==
    [pc |-> "idle", read |-> <<>>, eof |-> FALSE, usage |-> NoUsage,
     pending |-> <<>>, after |-> "loop", recv |-> <<>>, errs |-> <<>>,
     closed |-> FALSE]

CallsInit ==
    /\ providers = <<>>
    /\ rpc = "none"
    /\ reqProvider = ""
    /\ bpc = "idle"
    /\ bret = NilErr
    /\ invokeResp = NilResp
    /\ sendCalls = <<>>
    /\ terminalSeen = FALSE
    /\ adapterCalls = 0
    /\ ctxDone = FALSE
    /\ tctxDone = FALSE
    /\ adapter \in CallAdapters
    /\ ppc = "idle"
    /\ pending = <<>>
    /\ after = "loop"
    /\ perr = NilErr
    /\ usage = NoUsage
    /\ status = 0
    /\ respBody = ""
    /\ nframes = 0
    /\ responseChan = <<>>
    /\ respClosed = 0
    /\ errorChan = <<>>
    /\ errClosed = 0
    /\ emitted = <<>>
    /\ errsPlaced = <<>>
    /\ lateSend = FALSE
    /\ rpcr = "idle"
    /\ dataChan = <<>>
    /\ dataClosed = FALSE
    /\ errChan = <<>>
    /\ errChClosed = FALSE
    /\ upstream = <<>>
    /\ streams = [i \in CallIds |-> NewCall]
    /\ rdr = <<>>
    /\ unary = <<>>
    /\ client = <<>>
    /\ mem = <<>>
    /\ conf = <<>>

\* every call sends on one channel, the first call's
ChanShared(i) == 1

\* responseChan := make(chan *pb.LLMStreamResponse) inside InvokeStream: the
\* channel call i's goroutine sends on is the one call i returned
ChanOf(i) == i

callFrame == <<providers, rpc, reqProvider, bpc, bret, invokeResp, sendCalls,
               terminalSeen, adapterCalls, ctxDone, tctxDone, adapter, ppc,
               pending, after, perr, usage, status, respBody, nframes,
               responseChan, respClosed, errorChan, errClosed, emitted,
               errsPlaced, lateSend, rpcr, dataChan, dataClosed, errChan,
               errChClosed, upstream, rdr, unary, client, mem, conf>>

\* the call's goroutine after one loop iteration with result `step`
AfterStep(c, step) ==
    [c EXCEPT
        !.usage = step.usage,
        !.errs = IF step.next = "err" THEN Append(@, step.err) ELSE @,
        !.pending = IF step.next = "err" THEN <<>> ELSE step.events,
        !.after = step.next,
        !.pc = IF step.next = "err" THEN "ret"
               ELSE IF step.events # <<>> THEN "send"
               ELSE IF step.next = "ret" THEN "ret" ELSE "read"]

\* InvokeStream(ctx, req) is called: channels made, goroutine started, the
\* upstream answers 200
CallStart(i) ==
    /\ streams[i].pc = "idle"
    /\ streams' = [streams EXCEPT ![i].pc = "read"]
    /\ UNCHANGED callFrame

\* one iteration of call i's read loop on a line of its own response
CallRead(i) ==
    /\ streams[i].pc = "read"
    /\ Len(streams[i].read) < MaxCallFrames
    /\ \E f \in CallLines(adapter, i) :
        streams' = [streams EXCEPT
            ![i] = AfterStep([@ EXCEPT !.read = Append(@, f)],
                             HandleFrame(adapter, f, @.usage))]
    /\ UNCHANGED callFrame

\* call i's response body ends
CallEOF(i) ==
    /\ streams[i].pc = "read"
    /\ streams' = [streams EXCEPT
            ![i] = AfterStep([@ EXCEPT !.eof = TRUE],
                             Step(IF adapter = "gemini"
                                  THEN <<FinishEv("stop")>> ELSE <<>>,
                                  @.usage, "ret", NilErr))]
    /\ UNCHANGED callFrame

\* responseChan <- resp in call i's goroutine, received by the consumer of
\* that channel
CallSend(i) ==
    /\ streams[i].pc = "send"
    /\ LET e == Head(streams[i].pending)
           rest == Tail(streams[i].pending) IN
        streams' = [streams EXCEPT
            ![i].pending = rest,
            ![i].pc = IF rest # <<>> THEN "send"
                      ELSE IF streams[i].after = "ret" THEN "ret" ELSE "read",
            ![ChanOf(i)].recv = Append(@, e)]
    /\ UNCHANGED callFrame

\* call i's goroutine returns: its deferred closes run
CallReturn(i) ==
    /\ streams[i].pc = "ret"
    /\ streams' = [streams EXCEPT ![i].pc = "done", ![i].closed = TRUE]
    /\ UNCHANGED callFrame

CallsNext ==
    \E i \in CallIds :
        \/ CallStart(i)
        \/ CallRead(i)
        \/ CallEOF(i)
        \/ CallSend(i)
        \/ CallReturn(i)

CallsSpec == CallsInit /\ [][CallsNext]_vars

----------------------------------------------------------------------------
(* Reading the response body line by line.  OpenAI and Anthropic use       *)
(* bufio.NewScanner(resp.Body) with the default ScanLines split; the       *)
(* OpenRouter loops use bufio.Reader.ReadString('\n') followed by          *)
(* strings.TrimSpace.  The body reaches the reader through Read calls that *)
(* each return some positive number of the bytes that remain.              *)

MaxBytes == 4        \* bytes of a response body

NL == "\n"
Chars == {"d", NL}

ReaderKinds == {"scanner", "readstring"}

ByteSeqs == UNION { [1..n -> Chars] : n \in 0..MaxBytes }

HasNL(s) == \E k \in 1..Len(s) : s[k] = NL

\* bytes.IndexByte(s, '\n')
IndexNL(s) == CHOOSE k \in 1..Len(s) : s[k] = NL /\ \A j \in 1..(k - 1) : s[j] # NL

\* strings.TrimSpace
RECURSIVE TrimSpace(_)
TrimSpace(s) ==
    IF s = <<>> THEN s
    ELSE IF Head(s) = NL THEN TrimSpace(Tail(s))
    ELSE IF s[Len(s)] = NL THEN TrimSpace(SubSeq(s, 1, Len(s) - 1))
    ELSE s

\* a reader that keeps only what the last Read returned
BufferedDiscard(buf, chunk) == chunk

\* the reader's buffer after a Read: the new bytes follow the bytes of the
\* unfinished line
Buffered(buf, chunk) == buf \o chunk

\* the line handed to the loop for the buffered bytes up to the first '\n':
\* ScanLines drops the terminator, ReadString keeps it and the loop trims
LineOf(kind, buf) ==
    IF kind = "scanner" THEN SubSeq(buf, 1, IndexNL(buf) - 1)
    ELSE TrimSpace(SubSeq(buf, 1, IndexNL(buf)))

ReadInit ==
    /\ providers = <<>>
    /\ rpc = "none"
    /\ reqProvider = ""
    /\ bpc = "idle"
    /\ bret = NilErr
    /\ invokeResp = NilResp
    /\ sendCalls = <<>>
    /\ terminalSeen = FALSE
    /\ adapterCalls = 0
    /\ ctxDone = FALSE
    /\ tctxDone = FALSE
    /\ adapter = ""
    /\ ppc = "idle"
    /\ pending = <<>>
    /\ after = "loop"
    /\ perr = NilErr
    /\ usage = NoUsage
    /\ status = 0
    /\ respBody = ""
    /\ nframes = 0
    /\ responseChan = <<>>
    /\ respClosed = 0
    /\ errorChan = <<>>
    /\ errClosed = 0
    /\ emitted = <<>>
    /\ errsPlaced = <<>>
    /\ lateSend = FALSE
    /\ rpcr = "idle"
    /\ dataChan = <<>>
    /\ dataClosed = FALSE
    /\ errChan = <<>>
    /\ errChClosed = FALSE
    /\ upstream = <<>>
    /\ streams = <<>>
    /\ \E kind \in ReaderKinds, bytes \in ByteSeqs :
        rdr = [kind |-> kind, bytes |-> bytes, off |-> 0, buf |-> <<>>,
               lines |-> <<>>, split |-> FALSE, state |-> "run"]
    /\ unary = <<>>
    /\ client = <<>>
    /\ mem = <<>>
    /\ conf = <<>>

readFrame == <<providers, rpc, reqProvider, bpc, bret, invokeResp, sendCalls,
               terminalSeen, adapterCalls, ctxDone, tctxDone, adapter, ppc,
               pending, after, perr, usage, status, respBody, nframes,
               responseChan, respClosed, errorChan, errClosed, emitted,
               errsPlaced, lateSend, rpcr, dataChan, dataClosed, errChan,
               errChClosed, upstream, streams, unary, client, mem, conf>>

\* No complete line is buffered: the reader calls Read, which returns the
\* next n bytes of the body.
Fill(n) ==
    /\ rdr.state = "run"
    /\ ~HasNL(rdr.buf)
    /\ rdr.off + n <= Len(rdr.bytes)
    /\ rdr' = [rdr EXCEPT
            !.buf = Buffered(@, SubSeq(rdr.bytes, rdr.off + 1, rdr.off + n)),
            !.off = @ + n,
            !.split = @ \/ rdr.buf # <<>>]
    /\ UNCHANGED readFrame

\* scanner.Scan() / reader.ReadString('\n') returns the first buffered line.
NextLine ==
    /\ rdr.state = "run"
    /\ HasNL(rdr.buf)
    /\ rdr' = [rdr EXCEPT
            !.lines = Append(@, LineOf(rdr.kind, rdr.buf)),
            !.buf = SubSeq(@, IndexNL(@) + 1, Len(@))]
    /\ UNCHANGED readFrame

\* Read returns io.EOF.  The Scanner hands out a non-empty unterminated rest
\* as a last line; ReadString returns the rest with io.EOF, and the loop
\* returns without looking at it.
ReadEOF ==
    /\ rdr.state = "run"
    /\ ~HasNL(rdr.buf)
    /\ rdr.off = Len(rdr.bytes)
    /\ rdr' = [rdr EXCEPT
            !.lines = IF rdr.kind = "scanner" /\ rdr.buf # <<>>
                      THEN Append(@, rdr.buf) ELSE @,
            !.buf = <<>>,
            !.state = "eof"]
    /\ UNCHANGED readFrame

\* Read fails (the connection breaks).  The Scanner still hands out the
\* buffered rest as a line before Scan returns false; ReadString returns the
\* rest with the error, and the loop reports the error.
ReadFail ==
    /\ rdr.state = "run"
    /\ ~HasNL(rdr.buf)
    /\ rdr.off < Len(rdr.bytes)
    /\ rdr' = [rdr EXCEPT
            !.lines = IF rdr.kind = "scanner" /\ rdr.buf # <<>>
                      THEN Append(@, rdr.buf) ELSE @,
            !.buf = <<>>,
            !.state = "failed"]
    /\ UNCHANGED readFrame

ReadNext ==
    \/ \E n \in 1..MaxBytes : Fill(n)
    \/ NextLine
    \/ ReadEOF
    \/ ReadFail

ReadSpec == ReadInit /\ [][ReadNext]_vars

----------------------------------------------------------------------------
(* One adapter, constructed and invoked once (InvokeSpec).                 *)
(* Init draws the adapter, the API key of its Config and the upstream's    *)
(* answer to the one request Invoke makes.                                 *)

APIKeys == {"", "sk-test"}
UnaryAdapters == {"openai", "anthropic", "gemini", "openrouter"}

\* the upstream's answers: a transport failure, a non-200 status, a 200
\* with a body that does not parse, and 200 bodies with or without a
\* choice / content block / candidate, with or without a stated total and
\* with or without cache token counts.
UpstreamReplies ==
    { Reply(TRUE, 0, FALSE, 0, "", 0, 0, 0)
          @@ [cacheRead |-> 0, cacheCreation |-> 0],
      Reply(FALSE, 429, FALSE, 0, "", 0, 0, 0)
          @@ [cacheRead |-> 0, cacheCreation |-> 0],
      Reply(FALSE, StatusOK, FALSE, 0, "", 0, 0, 0)
          @@ [cacheRead |-> 0, cacheCreation |-> 0] }
    \cup { Reply(FALSE, StatusOK, TRUE, n, "Hi", 5, 2, t)
               @@ [cacheRead |-> cr, cacheCreation |-> cc] :
           n \in {0, 1}, t \in {0, 7}, cr \in {0, 5}, cc \in {0, 5} }

\* New(config): only the Gemini constructor looks at config.APIKey.
New(a, apiKey) ==
    IF a = "gemini" /\ apiKey = ""
        THEN [nil |-> TRUE, err |-> Err("gemini: API key is required", 0, "", "")]
        ELSE [nil |-> FALSE, err |-> NilErr]

\* the server and the streaming producer do not take part in the harness
Quiet ==
    /\ providers = <<>>
    /\ rpc = "none"
    /\ reqProvider = ""
    /\ bpc = "idle"
    /\ bret = NilErr
    /\ invokeResp = NilResp
    /\ sendCalls = <<>>
    /\ terminalSeen = FALSE
    /\ adapterCalls = 0
    /\ ctxDone = FALSE
    /\ tctxDone = FALSE
    /\ adapter = ""
    /\ ppc = "idle"
    /\ pending = <<>>
    /\ after = "loop"
    /\ perr = NilErr
    /\ usage = NoUsage
    /\ status = 0
    /\ respBody = ""
    /\ nframes = 0
    /\ responseChan = <<>>
    /\ respClosed = 0
    /\ errorChan = <<>>
    /\ errClosed = 0
    /\ emitted = <<>>
    /\ errsPlaced = <<>>
    /\ lateSend = FALSE
    /\ rpcr = "idle"
    /\ dataChan = <<>>
    /\ dataClosed = FALSE
    /\ errChan = <<>>
    /\ errChClosed = FALSE
    /\ upstream = <<>>
    /\ streams = <<>>
    /\ rdr = <<>>

quietVars == <<providers, rpc, reqProvider, bpc, bret, invokeResp, sendCalls,
               terminalSeen, adapterCalls, ctxDone, tctxDone, adapter, ppc,
               pending, after, perr, usage, status, respBody, nframes,
               responseChan, respClosed, errorChan, errClosed, emitted,
               errsPlaced, lateSend, rpcr, dataChan, dataClosed, errChan,
               errChClosed, upstream, streams, rdr>>

MaxMsgs == 2        \* messages in the request of a unary harness call

\* req.Messages: up to MaxMsgs chat messages
ChatMessages ==
    { [role |-> "user", content |-> "Hello"],
      [role |-> "assistant", content |-> "Hi"],
      [role |-> "system", content |-> "Be brief"] }
MessageLists == UNION { [1..n -> ChatMessages] : n \in 0..MaxMsgs }

\* Gemini: the genai.Content a message becomes in session.History
GeminiContent(msg) ==
    IF msg.role = "assistant" THEN [role |-> "model", text |-> msg.content]
    ELSE [role |-> "user", text |-> msg.content]

\* Gemini: what the chat session submits to the vendor: session.History,
\* to which every message was appended, followed by the content that
\* SendMessage / SendMessageStream is called with, the last message's text.
GeminiTurns(msgs) ==
    [i \in 1..Len(msgs) |-> GeminiContent(msgs[i])]
        \o <<[role |-> "user", text |-> msgs[Len(msgs)].content]>>

\* the adapter indexes req.Messages[len(req.Messages)-1]
IndexesLast(a) == a = "gemini"

InvokeInit ==
    /\ Quiet
    /\ client = <<>>
    /\ mem = <<>>
    /\ conf = <<>>
    /\ \E a \in UnaryAdapters, k \in APIKeys, r \in UpstreamReplies,
          op \in {"Invoke", "InvokeStream"}, msgs \in MessageLists :
        unary = [adapter |-> a, apiKey |-> k, reply |-> r, pc |-> "new",
                 op |-> op, messages |-> msgs, turns |-> <<>>,
                 faultIn |-> "",
                 provider |-> [nil |-> TRUE, err |-> NilErr],
                 res |-> Result(NilResp, NilErr)]

\* the caller constructs the adapter from its Config
UnaryNew ==
    /\ unary.pc = "new"
    /\ LET made == New(unary.adapter, unary.apiKey) IN
        unary' = [unary EXCEPT !.provider = made,
                               !.pc = IF made.nil THEN "failed" ELSE "built"]
    /\ UNCHANGED <<quietVars, client, mem, conf>>

\* the caller invokes the adapter once; the upstream answers with reply.
\* Indexing the last element of an empty list is a run-time panic, here in
\* the caller's goroutine.
UnaryInvoke ==
    /\ unary.pc = "built"
    /\ unary.op = "Invoke"
    /\ unary' =
        IF IndexesLast(unary.adapter) /\ unary.messages = <<>>
            THEN [unary EXCEPT !.pc = "fault", !.faultIn = "caller"]
        ELSE [unary EXCEPT
                !.turns = IF unary.adapter = "gemini"
                          THEN GeminiTurns(unary.messages) ELSE <<>>,
                !.res = AdapterInvoke(unary.adapter, unary.reply),
                !.pc = "invoked"]
    /\ UNCHANGED <<quietVars, client, mem, conf>>

\* the caller starts a streaming call: the goroutine converts the messages
\* and issues the request (what follows is StreamSpec's).  The same index
\* panics in the producer goroutine.
UnaryInvokeStream ==
    /\ unary.pc = "built"
    /\ unary.op = "InvokeStream"
    /\ unary' =
        IF IndexesLast(unary.adapter) /\ unary.messages = <<>>
            THEN [unary EXCEPT !.pc = "fault", !.faultIn = "producer"]
        ELSE [unary EXCEPT
                !.turns = IF unary.adapter = "gemini"
                          THEN GeminiTurns(unary.messages) ELSE <<>>,
                !.pc = "streaming"]
    /\ UNCHANGED <<quietVars, client, mem, conf>>

InvokeNext == UnaryNew \/ UnaryInvoke \/ UnaryInvokeStream

InvokeSpec == InvokeInit /\ [][InvokeNext]_vars

----------------------------------------------------------------------------
(* The in-process Client (ClientSpec): New(providers), then one call of    *)
(* Invoke, InvokeSimple, InvokeStream or InvokeStreamSimple, whose caller  *)
(* ranges over the returned error channel.                                 *)

\* the Provider constants
ValidProviders == {"openai", "anthropic", "gemini", "openrouter"}
\* Provider is a string type: a caller, and a key of the map, can be any
ProviderNames == ValidProviders \cup {"invalid", ""}
ClientRegistries == SUBSET {"openai", "gemini", "invalid"}
ClientOps == {"Invoke", "InvokeSimple", "InvokeStream", "InvokeStreamSimple"}
StreamOps == {"InvokeStream", "InvokeStreamSimple"}

IsValidAny(p) == TRUE

\* Provider.IsValid
IsValid(p) == p \in ValidProviders

\* Client.getProvider
ClientGetProvider(reg, p) ==
    IF p \in reg THEN [ok |-> TRUE, err |-> NilErr]
    ELSE [ok |-> FALSE, err |-> Err("provider not initialized", 0, p, "")]

\* how the caller consumes a stream call's channels: it ranges over the
\* error channel only, or over the event channel first and then over the
\* error channel
Consumers == {"errors", "events"}

ClientInit ==
    /\ Quiet
    /\ unary = <<>>
    /\ mem = <<>>
    /\ conf = <<>>
    /\ \E reg \in ClientRegistries :
        client = [providers |-> reg, pc |-> "idle", op |-> "", name |-> "",
                  messages |-> 0, consumer |-> "", respNil |-> TRUE,
                  err |-> NilErr, errChNil |-> TRUE, errCh |-> <<>>,
                  errChClosed |-> FALSE, got |-> <<>>, calls |-> 0]

\* what a call returns before it reaches the adapter: the error, or nil
ClientCheck(reg, p) ==
    IF ~IsValid(p) THEN Err("invalid provider", 0, p, "")
    ELSE ClientGetProvider(reg, p).err

\* Client.Invoke / Client.InvokeStream; the Simple forms build one user
\* message and call them.  A stream call that reaches the adapter returns
\* the adapter's two channels; one that does not returns a nil event
\* channel and its own error channel.
ClientCall(op, p, n, k) ==
    /\ client.pc = "idle"
    /\ LET e == ClientCheck(client.providers, p)
           called == [client EXCEPT !.op = op, !.name = p, !.messages = n,
                                    !.consumer = k] IN
        client' =
            IF e = NilErr
                THEN [called EXCEPT !.pc = "delegated", !.calls = @ + 1,
                                    !.respNil = op \notin StreamOps,
                                    !.errChNil = op \notin StreamOps]
            ELSE IF op \in StreamOps
                THEN [called EXCEPT !.pc = "returned", !.errChNil = FALSE,
                                    !.errCh = <<e>>, !.errChClosed = TRUE]
            ELSE [called EXCEPT !.pc = "returned", !.err = e]
    /\ UNCHANGED <<quietVars, unary, mem, conf>>

\* the caller has got past its loop over the event channel, if it has one:
\* a receive from a nil channel blocks forever
PastEvents == client.consumer = "errors" \/ ~client.respNil

\* for err := range errCh: receive a buffered value
ClientRecvErr ==
    /\ client.pc = "returned"
    /\ client.op \in StreamOps
    /\ PastEvents
    /\ client.errCh # <<>>
    /\ client' = [client EXCEPT !.got = Append(@, Head(client.errCh)),
                                !.errCh = Tail(@)]
    /\ UNCHANGED <<quietVars, unary, mem, conf>>

\* the range loop ends on the closed, drained channel
ClientRangeEnd ==
    /\ client.pc = "returned"
    /\ client.op \in StreamOps
    /\ PastEvents
    /\ client.errCh = <<>>
    /\ client.errChClosed
    /\ client' = [client EXCEPT !.pc = "drained"]
    /\ UNCHANGED <<quietVars, unary, mem, conf>>

ClientNext ==
    \/ \E op \in ClientOps, p \in ProviderNames, n \in {0, 1}, k \in Consumers :
        /\ op \in {"InvokeSimple", "InvokeStreamSimple"} => n = 1
        /\ op \notin StreamOps => k = "errors"
        /\ ClientCall(op, p, n, k)
    \/ ClientRecvErr
    \/ ClientRangeEnd

ClientSpec == ClientInit /\ [][ClientNext]_vars

\* the caller's loops run on: a loop that can take a step takes it
ClientFairSpec == ClientSpec /\ WF_vars(ClientRecvErr) /\ WF_vars(ClientRangeEnd)

----------------------------------------------------------------------------
(* The UsageInfo objects of one Anthropic InvokeStream call (UsageSpec).   *)
(* `usage` is a pointer: objs are the objects allocated so far, a Usage    *)
(* event holds the pointer it was sent with, and `seen` are the values the *)
(* consumer found behind it when it received the event.                    *)

UsageLines ==
    { DoneFrame,
      Typed("message_start", "", "", FALSE, 5, 0),
      Typed("content_block_delta", "text_delta", "a", FALSE, 0, 0),
      Typed("message_delta", "", "", TRUE, 0, 2),
      Typed("message_delta", "", "", TRUE, 0, 1) }

UsageInit ==
    /\ Quiet
    /\ unary = <<>>
    /\ client = <<>>
    /\ conf = <<>>
    /\ \E lines \in UNION { [1..n -> UsageLines] : n \in 0..MaxBody } :
        mem = [lines |-> lines, n |-> 0, usage |-> 0, objs |-> <<>>,
               delivered |-> <<>>, pc |-> "read"]

\* responseChan <- &pb.LLMStreamResponse{Type: TYPE_USAGE, Usage: usage}
SendUsage(m) ==
    [m EXCEPT !.delivered = Append(@, [ref |-> m.usage, seen |-> m.objs[m.usage]])]

\* one iteration of the read loop
UsageScan ==
    /\ mem.pc = "read"
    /\ mem.n < Len(mem.lines)
    /\ LET f == mem.lines[mem.n + 1]
           m == [mem EXCEPT !.n = @ + 1]
           start == f.typ = "message_start" /\ f.p > 0
           delta == ~start /\ f.typ = "message_delta" /\ f.hasUsage /\ f.c > 0
       IN  mem' =
            IF f.kind = "done"
                THEN [(IF m.usage # 0 THEN SendUsage(m) ELSE m) EXCEPT !.pc = "done"]
            ELSE IF start
                \* usage = &pb.UsageInfo{PromptTokens: ...}: a new object
                THEN [m EXCEPT !.objs = Append(@, [p |-> f.p, c |-> 0, t |-> 0]),
                               !.usage = Len(m.objs) + 1]
            ELSE IF delta
                THEN LET a == IF m.usage # 0 THEN m
                              ELSE [m EXCEPT
                                      !.objs = Append(@, [p |-> AnthropicMinPrompt,
                                                          c |-> 0, t |-> 0]),
                                      !.usage = Len(m.objs) + 1]
                         \* usage.CompletionTokens = ...; usage.TotalTokens = ...
                         w == [a EXCEPT !.objs[a.usage] =
                                  [p |-> @.p, c |-> f.c, t |-> @.p + f.c]]
                     IN  SendUsage(w)
            ELSE m
    /\ UNCHANGED <<quietVars, unary, client, conf>>

\* scanner.Scan() returns false: the goroutine returns
UsageEOF ==
    /\ mem.pc = "read"
    /\ mem.n = Len(mem.lines)
    /\ mem' = [mem EXCEPT !.pc = "done"]
    /\ UNCHANGED <<quietVars, unary, client, conf>>

UsageNext == UsageScan \/ UsageEOF

UsageSpec == UsageInit /\ [][UsageNext]_vars

----------------------------------------------------------------------------
(* One Config and the adapters built from it (ConfigSpec).  New takes a    *)
(* *provider.Config; the HTTP adapters keep that pointer and read BaseURL  *)
(* and DefaultModel through it on every call.                              *)

MaxBuilds == 2      \* adapters constructed from the one Config

defaultBaseURL(v) ==
    IF v = "openai" THEN "https://api.openai.com/v1"
    ELSE IF v = "anthropic" THEN "https://api.anthropic.com/v1"
    ELSE IF v = "openrouter" THEN "https://openrouter.ai/api/v1"
    ELSE ""

defaultModel(v) ==
    IF v = "openai" THEN "gpt-3.5-turbo"
    ELSE IF v = "anthropic" THEN "claude-3-5-haiku-latest"
    ELSE IF v = "openrouter" THEN "openai/gpt-3.5-turbo"
    ELSE "gemini-1.5-flash-8b"

\* provider.Config
Configs ==
    [APIKey : APIKeys, DefaultModel : {"", "custom-model"},
     BaseURL : {"", "http://localhost:8080"}]

ConfigInit ==
    /\ Quiet
    /\ unary = <<>>
    /\ client = <<>>
    /\ mem = <<>>
    /\ \E cfg \in Configs :
        conf = [orig |-> cfg, config |-> cfg, built |-> <<>>]

\* what New(config) writes into *config: a default the HTTP constructors
\* store in an unset field
Defaulted(field, def) == IF field = "" THEN def ELSE field

\* New(config) of vendor v
ConfNew(v) ==
    /\ Len(conf.built) < MaxBuilds
    /\ conf' =
        IF v = "gemini"
        THEN [conf EXCEPT !.built = Append(@,
                [vendor |-> v, nil |-> New(v, conf.config.APIKey).nil,
                 ownModel |-> Defaulted(conf.config.DefaultModel, defaultModel(v))])]
        ELSE [conf EXCEPT
                !.config.BaseURL = Defaulted(@, defaultBaseURL(v)),
                !.config.DefaultModel = Defaulted(@, defaultModel(v)),
                !.built = Append(@, [vendor |-> v, nil |-> FALSE, ownModel |-> ""])]
    /\ UNCHANGED <<quietVars, unary, client, mem>>

ConfigNext == \E v \in UnaryAdapters : ConfNew(v)

ConfigSpec == ConfigInit /\ [][ConfigNext]_vars

\* p.config.BaseURL and the model an adapter falls back to, as a call of the
\* adapter reads them now
BaseURLOf(ad) == conf.config.BaseURL
ModelOf(ad) == IF ad.vendor = "gemini" THEN ad.ownModel ELSE conf.config.DefaultModel

----------------------------------------------------------------------------
(* Properties *)

IsPrefix(a, b) == Len(a) <= Len(b) /\ SubSeq(b, 1, Len(a)) = a

Streaming == rpc = "stream"
Returned == bpc = "returned"
ProducerActive == ppc \notin {"idle", "done"}

\* C1: whenever the adapter has placed an error on its error channel, the
\* bridge's return value is a non-nil error: the error is never masked by a
\* nil return, whichever of the ready select cases is taken.
C1_ErrorNeverMasked ==
    (Streaming /\ Returned /\ errsPlaced # <<>>) => bret # NilErr

\* C2: when the invocation ended without any error and the bridge returned
\* nil, every event the adapter put on its event channel was passed to
\* stream.Send.
C2_AllEventsForwarded ==
    (Streaming /\ Returned /\ bret = NilErr /\ ppc = "done" /\ errsPlaced = <<>>)
        => sendCalls = emitted

\* C3: the events passed to stream.Send are always a prefix of the events
\* the adapter sent on its event channel: same order, none twice, none
\* skipped.
C3_ForwardedIsPrefix == IsPrefix(sendCalls, emitted)

C3_Witness ==
    /\ Len(sendCalls) >= 2
    /\ sendCalls[1] # sendCalls[2]
    /\ Len(emitted) > Len(sendCalls)

\* C4: if the caller's context is canceled while the stream is in progress,
\* both the event channel and the error channel are eventually closed, and
\* nothing is sent on a closed channel.
C4_CancelClosesChannels ==
    /\ (ctxDone /\ ProducerActive) ~> (respClosed > 0 /\ errClosed > 0)
    /\ [](~lateSend)

\* C5: once the bridge has returned (on any exit path), the producer has
\* terminated or one of the adapter's goroutines can still take a step: the
\* producer is never left blocked on a send to its event channel.
C5_ProducerNotStuck ==
    (Streaming /\ Returned) => (~ProducerActive \/ ENABLED (Producer \/ Reader))

\* C6: once the outbound stream's context is done, the bridge makes no
\* further call to stream.Send, even when events are still available.
C6_NoSendAfterCtxDone == [][ctxDone => sendCalls' = sendCalls]_vars

\* C7: after the bridge has received an adapter error or a stream.Send call
\* has failed, it makes no further call to stream.Send and has returned a
\* non-nil error that wraps the original one.
C7_TerminalStopsForwarding ==
    /\ [][terminalSeen => sendCalls' = sendCalls]_vars
    /\ [](terminalSeen =>
            /\ Returned
            /\ bret # NilErr
            /\ \/ /\ bret.kind = "provider error"
                  /\ errsPlaced # <<>>
                  /\ bret.cause = errsPlaced[1].kind
                  /\ bret.code = errsPlaced[1].code
                  /\ bret.detail = errsPlaced[1].detail
               \/ /\ bret.kind = "failed to send response"
                  /\ bret.cause = "send"
                  /\ sendCalls # <<>>)

C7_Witness ==
    /\ terminalSeen
    /\ bret.kind = "provider error"
    /\ sendCalls # <<>>
    /\ responseChan # <<>>

\* C8: a server call whose provider identifier is not an exact key of the
\* registry returns a non-nil error (Invoke: and a nil response), calls no
\* adapter and never calls stream.Send; the registry never changes.
C8_UnknownProviderRejected ==
    /\ []((Returned /\ reqProvider \notin DOMAIN providers) =>
            /\ bret.kind = "unsupported provider"
            /\ invokeResp = NilResp
            /\ adapterCalls = 0
            /\ adapter = ""
            /\ ppc = "idle"
            /\ sendCalls = <<>>)
    /\ [][providers' = providers]_vars

C8_Witness ==
    /\ Returned
    /\ Streaming
    /\ reqProvider = "OpenAI"
    /\ "openai" \in DOMAIN providers

\* C9: each channel is closed at most once, nothing is sent on a channel
\* after it is closed, and when the producer goroutine has returned both
\* channels have been closed exactly once.
C9_ChannelsClosedOnce ==
    /\ respClosed <= 1
    /\ errClosed <= 1
    /\ ~lateSend
    /\ ppc = "done" => (respClosed = 1 /\ errClosed = 1)
    /\ ppc \in {"request", "read", "select", "send", "senderr", "ret"}
            => (respClosed = 0 /\ errClosed = 0)

C9_Witness ==
    /\ ppc = "done"
    /\ ctxDone
    /\ emitted # <<>>
    /\ errsPlaced # <<>>

\* C10: HTTP adapters, initial response with a status other than 200: no
\* event is ever put on the event channel, and once the producer returns
\* exactly one error, carrying the status code and the response body, has
\* been put on the error channel; both channels are then closed.
C10_ErrorStatusAborts ==
    (adapter \in HTTPAdapters /\ status \notin {0, StatusOK}) =>
        /\ emitted = <<>>
        /\ errsPlaced \in {<<>>, <<Err("request failed with status", status, respBody, "")>>}
        /\ ppc \in {"senderr", "ret", "ret2", "done"}
        /\ ppc # "senderr" => errsPlaced # <<>>
        /\ ppc = "done" => (respClosed = 1 /\ errClosed = 1)

C10_Witness ==
    /\ adapter \in HTTPAdapters
    /\ status = 429
    /\ respBody = "rate limited"
    /\ ppc = "done"
    /\ errsPlaced # <<>>

\* C11: a malformed data frame is reported.  For the OpenRouter adapter: when
\* the next line the processing loop has to handle is a data frame whose
\* payload is not valid JSON, and the context is not done, the loop does not
\* return without having put an error on the error channel.
C11_MalformedFrameReported ==
    [][(/\ adapter = "openrouter"
        /\ ppc = "select"
        /\ ~tctxDone
        /\ dataChan # <<>>
        /\ Head(dataChan) = BadFrame) => ppc' # "ret"]_vars

----------------------------------------------------------------------------
(* Properties of one streaming call (StreamSpec) *)

DeltaAdapters == {"openai", "openrouter", "openrouter_v1"}
SSEAdapters == DeltaAdapters \cup {"anthropic"}

\* the lines read so far
Scanned == SubSeq(upstream, 1, nframes)

\* the texts carried by the events of one type, in order
Texts(events, type) ==
    LET s == SelectSeq(events, LAMBDA e : e.type = type)
    IN  [i \in 1..Len(s) |-> s[i].text]

\* the non-empty choices[0].delta.content of the data frames, in order
ContentOf(frames) ==
    LET s == SelectSeq(frames, LAMBDA f : f.kind = "json" /\ f.choices > 0
                                          /\ f.content # "")
    IN  [i \in 1..Len(s) |-> s[i].content]

\* the non-empty choices[0].finish_reason of the data frames, in order
FinishOf(frames) ==
    LET s == SelectSeq(frames, LAMBDA f : f.kind = "json" /\ f.choices > 0
                                          /\ f.finish # "")
    IN  [i \in 1..Len(s) |-> s[i].finish]

\* the data frames that carry a usage object, in order
UsageFrames(frames) == SelectSeq(frames, LAMBDA f : f.kind = "json" /\ f.hasUsage)

UsageEvents == SelectSeq(emitted, LAMBDA e : e.type = "usage")

\* C12: when the Anthropic adapter reads a frame whose type is `error`, that
\* iteration puts an error on the error channel and emits no event.
C12_ErrorEventReported ==
    [][(/\ adapter = "anthropic"
        /\ ppc = "read"
        /\ nframes < Len(upstream)
        /\ upstream[nframes + 1].typ = "error"
        /\ nframes' = nframes + 1)
       => (errsPlaced' # errsPlaced /\ emitted' = emitted)]_vars

\* C13: for a delta-style adapter the Content events carry, one for one and
\* in frame order, the non-empty delta texts of the data frames read so far,
\* whatever else (usage, finish reason) those frames carry.
C13_ContentVerbatim ==
    adapter \in DeltaAdapters =>
        Texts(emitted, "content") = ContentOf(Scanned)

\* C14: the FinishReason events carry, one for one and in frame order, the
\* non-empty finish reasons of the frames read so far, also for a frame
\* without text content.
C14_FinishReasonForwarded ==
    adapter \in DeltaAdapters =>
        Texts(emitted, "finish") = FinishOf(Scanned)

\* C15: of two Usage events emitted one after the other, the later one has
\* no field smaller than the earlier one.
C15_UsageMonotone ==
    \A i \in 1..(Len(UsageEvents) - 1) :
        /\ UsageEvents[i + 1].p >= UsageEvents[i].p
        /\ UsageEvents[i + 1].c >= UsageEvents[i].c
        /\ UsageEvents[i + 1].t >= UsageEvents[i].t

\* C16: no two consecutive Usage events of a call carry identical values.
C16_UsageOnlyOnChange ==
    \A i \in 1..(Len(UsageEvents) - 1) : UsageEvents[i + 1] # UsageEvents[i]

\* C17: when a delta-style call has read the `[DONE]` sentinel and closed its
\* channels, and some data frame before the sentinel carried a usage object,
\* the last Usage event carries the counts of the last such frame.
C17_LastUsageEmitted ==
    (/\ adapter \in DeltaAdapters
     /\ ppc = "done"
     /\ errsPlaced = <<>>
     /\ nframes > 0
     /\ upstream[nframes].kind = "done"
     /\ UsageFrames(Scanned) # <<>>)
    => LET f == UsageFrames(Scanned)[Len(UsageFrames(Scanned))] IN
        /\ UsageEvents # <<>>
        /\ UsageEvents[Len(UsageEvents)] = UsageEv(Usage(f.p, f.c, f.t))

\* C18: an SSE call that ends with both channels closed and no error has
\* read the terminal sentinel: the last line it read is `data: [DONE]`.
C18_CompletedOnlyAfterSentinel ==
    (/\ adapter \in SSEAdapters
     /\ ppc = "done"
     /\ errsPlaced = <<>>)
    => (nframes > 0 /\ upstream[nframes].kind = "done")

----------------------------------------------------------------------------
(* Properties of concurrent calls (CallsSpec) *)

\* the events the adapter's loop produces for the lines `frames`, from the
\* usage value u
RECURSIVE RunEvents(_, _, _)
RunEvents(a, frames, u) ==
    IF frames = <<>> THEN <<>>
    ELSE LET step == HandleFrame(a, Head(frames), u)
         IN  step.events \o RunEvents(a, Tail(frames), step.usage)

\* the events call i's own upstream response gives rise to, so far
OwnEvents(i) ==
    RunEvents(adapter, streams[i].read, NoUsage)
        \o (IF adapter = "gemini" /\ streams[i].eof
            THEN <<FinishEv("stop")>> ELSE <<>>)

----------------------------------------------------------------------------
(* Properties of the line readers (ReadSpec) *)

\* the pieces of s between its '\n' bytes; the last piece is the
\* unterminated rest (possibly empty)
RECURSIVE Pieces(_)
Pieces(s) ==
    IF ~HasNL(s) THEN <<s>>
    ELSE <<SubSeq(s, 1, IndexNL(s) - 1)>>
            \o Pieces(SubSeq(s, IndexNL(s) + 1, Len(s)))

\* the lines the loop gets when the whole body arrives in a single Read
WholeBodyLines(kind, bytes) ==
    LET ps == Pieces(bytes)
        terminated == SubSeq(ps, 1, Len(ps) - 1)
        rest == ps[Len(ps)]
    IN  IF kind = "scanner" /\ rest # <<>>
        THEN Append(terminated, rest) ELSE terminated

\* C20: however the body's bytes are split into reads, the lines handed to
\* the adapter's loop (of which its events and errors are a function) are
\* those of the same body delivered in one read: always a prefix of them
\* while the body is being read, and all of them once it has ended.
C20_ReadsDoNotMatter ==
    /\ rdr.state \in {"run", "eof"} =>
            IsPrefix(rdr.lines, WholeBodyLines(rdr.kind, rdr.bytes))
    /\ rdr.state = "eof" =>
            rdr.lines = WholeBodyLines(rdr.kind, rdr.bytes)

\* a terminated line that reached the reader in two or more reads has been
\* handed out, and the body has ended
C20_Witness ==
    /\ rdr.state = "eof"
    /\ rdr.split
    /\ rdr.bytes[Len(rdr.bytes)] = NL
    /\ \E k \in 1..Len(rdr.lines) : Len(rdr.lines[k]) >= 2

----------------------------------------------------------------------------
(* Properties of one unary call (InvokeSpec) *)

Invoked == unary.pc = "invoked"

\* the upstream answered 200 with a body that parses
Answered ==
    /\ ~unary.reply.transportErr
    /\ unary.reply.status = StatusOK
    /\ unary.reply.parseOK

\* C21: Invoke returns either a response and a nil error or no response and
\* an error; a non-200 status (whose code the error then carries), a body
\* that does not parse, or a body without a choice, content block or
\* candidate gives the error, never a success.
C21_InvokeResponseOrError ==
    Invoked =>
        /\ unary.res.resp.nil <=> unary.res.err # NilErr
        /\ (~unary.reply.transportErr /\ unary.reply.status # StatusOK)
               => /\ unary.res.resp.nil
                  /\ unary.adapter \in HTTPAdapters
                         => unary.res.err.code = unary.reply.status
        /\ (Answered /\ unary.reply.choices = 0) => unary.res.resp.nil
        /\ (~unary.reply.transportErr /\ unary.reply.status = StatusOK
                /\ ~unary.reply.parseOK) => unary.res.resp.nil

\* C22: an HTTP adapter's Invoke on a 200 answer with content, prompt
\* tokens p and completion tokens q returns that content, p, q and the
\* total p + q, whether or not the body states a total.
C22_TotalIsSum ==
    (Invoked /\ unary.adapter \in HTTPAdapters /\ Answered
        /\ unary.reply.choices = 1) =>
        /\ ~unary.res.resp.nil
        /\ unary.res.resp.content = unary.reply.content
        /\ unary.res.resp.p = unary.reply.p
        /\ unary.res.resp.c = unary.reply.c
        /\ unary.res.resp.t = unary.reply.p + unary.reply.c

\* C23: constructing an adapter from a Config whose API key is empty fails:
\* it returns an error and no adapter.
C23_EmptyKeyRejected ==
    (unary.pc # "new" /\ unary.apiKey = "") =>
        /\ unary.provider.nil
        /\ unary.provider.err # NilErr

\* C24: the cache-read and cache-creation token counts of the Anthropic
\* answer are the ones in the usage of the Invoke result (zero when the
\* answer has none).
C24_CacheTokensCarried ==
    (Invoked /\ unary.adapter = "anthropic" /\ Answered) =>
        /\ ~unary.res.resp.nil
        /\ unary.res.resp.cacheRead = unary.reply.cacheRead
        /\ unary.res.resp.cacheCreation = unary.reply.cacheCreation

----------------------------------------------------------------------------
(* Properties of the in-process Client (ClientSpec) *)

\* the call named a provider that is invalid or not in the client's map
Unusable ==
    /\ client.pc # "idle"
    /\ client.name \notin ValidProviders \/ client.name \notin client.providers

\* C25: a Client call with an invalid or uninitialized provider calls no
\* adapter; the streaming forms return no event channel and an error channel
\* that holds exactly one non-nil error and is closed, so that a range over
\* it receives that error and ends; the unary forms return a non-nil error.
C25_ClientRejects ==
    Unusable =>
        /\ client.calls = 0
        /\ client.op \in StreamOps =>
            /\ client.respNil
            /\ ~client.errChNil
            /\ client.errChClosed
            /\ Len(client.got \o client.errCh) = 1
            /\ (client.got \o client.errCh)[1] # NilErr
            /\ client.pc = "drained" => Len(client.got) = 1
        /\ client.op \notin StreamOps =>
            /\ client.respNil
            /\ client.err # NilErr

\* a stream call named a provider that is in the map but is not one of the
\* Provider constants; its caller received one error and saw the close
C25_Witness ==
    /\ Unusable
    /\ client.op = "InvokeStreamSimple"
    /\ client.name \in client.providers
    /\ client.pc = "drained"
    /\ Len(client.got) = 1

\* C39: a caller of Client.InvokeStream that ranges over the returned event
\* channel and then over the error channel gets to the end of both loops,
\* also when the call named an invalid or uninitialized provider.
C39_ConsumerTerminates ==
    (/\ client.pc = "returned"
     /\ client.op \in StreamOps
     /\ client.consumer = "events") ~> (client.pc = "drained")

----------------------------------------------------------------------------
(* Properties of the producers and the bridge (Spec), continued *)

\* C26: while lines the reader has enqueued are waiting in dataChan, the
\* context is not done and the reader has reported no read error, the
\* OpenRouter processing loop returns only by handling the next of those
\* lines (the [DONE] sentinel); it never returns leaving them all unhandled.
C26_QueuedLinesHandled ==
    [][(/\ adapter = "openrouter"
        /\ ppc = "select"
        /\ ~tctxDone
        /\ errChan = <<>>
        /\ dataChan # <<>>
        /\ ppc' = "ret") => dataChan' = Tail(dataChan)]_vars

----------------------------------------------------------------------------
(* Properties of one streaming call (StreamSpec), continued *)

\* the positions of the `data: [DONE]` lines among the lines read so far
SentinelsRead == {k \in 1..nframes : upstream[k].kind = "done"}

C28_OneRequestNoRetry ==
    [][/\ ppc \notin {"idle", "request"} => ppc' # "request"
       /\ ppc = "done" =>
            /\ ppc' = "done"
            /\ emitted' = emitted
            /\ errsPlaced' = errsPlaced
            /\ respClosed' = respClosed
            /\ errClosed' = errClosed
       /\ errsPlaced # <<>> => emitted' = emitted]_vars

\* a call that emitted an event, then failed on a later frame, has put its
\* error on the error channel and ended
C28_Witness ==
    /\ ppc = "done"
    /\ status = StatusOK
    /\ emitted # <<>>
    /\ errsPlaced # <<>>
    /\ nframes = 2

\* C29: when the event channel is closed the error channel is closed already,
\* and no error is placed on it afterwards; so, as long as nobody has
\* received it, an error of the invocation is in the error channel's buffer
\* at every moment at which the event channel is closed.
C29_ErrorBeforeEventClose ==
    [][/\ respClosed' > 0 => errClosed' > 0
       /\ respClosed > 0 => errsPlaced' = errsPlaced
       /\ (respClosed' > 0 /\ errsPlaced' # <<>> /\ bpc' = "loop" /\ bret' = NilErr)
            => errorChan' = errsPlaced']_vars

\* the producer failed and has closed both channels while the bridge is
\* still in its loop and has not yet received the error
C29_Witness ==
    /\ respClosed = 1
    /\ errClosed = 1
    /\ errsPlaced # <<>>
    /\ errorChan = errsPlaced
    /\ bpc = "loop"

\* C30: the producer puts at most one value on the error channel, and
\* whenever it is about to send one the capacity-1 buffer has room, whether
\* or not anybody receives from the channel.
C30_ErrorSendNeverBlocks ==
    /\ Len(errsPlaced) <= 1
    /\ Len(errorChan) <= ErrorChanCap
    /\ ppc = "senderr" => (errsPlaced = <<>> /\ Len(errorChan) < ErrorChanCap)

\* the producer failed, sent its error into the buffer and ended; the bridge
\* has returned and the error was never received
C30_Witness ==
    /\ bpc = "returned"
    /\ ppc = "done"
    /\ Len(errsPlaced) = 1
    /\ errorChan = errsPlaced

\* a data frame with non-empty delta content and a non-empty finish reason
\* (and no usage object)
ContentAndFinish(f) ==
    /\ f.kind = "json"
    /\ f.choices > 0
    /\ ~f.hasUsage
    /\ f.content # ""
    /\ f.finish # ""

\* C31: for a delta-style adapter a frame that carries both delta content and
\* a finish reason yields the Content event and then the FinishReason event,
\* and the OpenAI and the OpenRouter loop derive the same event sequence from
\* the frames read so far.
C31_ContentThenFinish ==
    adapter \in DeltaAdapters =>
        /\ \A k \in 1..nframes :
            ContentAndFinish(upstream[k]) =>
                HandleFrame(adapter, upstream[k], NoUsage).events
                    = <<ContentEv(upstream[k].content), FinishEv(upstream[k].finish)>>
        /\ RunEvents("openai", Scanned, NoUsage)
               = RunEvents("openrouter", Scanned, NoUsage)

\* C33: every Usage event of an Anthropic call has total tokens equal to
\* prompt tokens plus completion tokens.
C33_UsageTotalIsSum ==
    adapter = "anthropic" =>
        \A i \in 1..Len(UsageEvents) :
            UsageEvents[i].t = UsageEvents[i].p + UsageEvents[i].c

\* the input-token counts the vendor reported in the lines read so far
ReportedInputTokens ==
    {upstream[k].p : k \in {j \in 1..nframes :
        upstream[j].kind = "json" /\ upstream[j].typ = "message_start"}}

\* C34: the prompt-token count of every Usage event of an Anthropic call is
\* an input-token count the vendor reported in this call, or zero when it
\* reported none.
C34_PromptTokensReported ==
    adapter = "anthropic" =>
        \A i \in 1..Len(UsageEvents) :
            UsageEvents[i].p \in
                (IF ReportedInputTokens = {} THEN {0} ELSE ReportedInputTokens)

----------------------------------------------------------------------------
(* Properties of the UsageInfo objects of an Anthropic call (UsageSpec) *)

\* C32: a Usage event that has been delivered keeps its values: what is
\* behind its pointer is what the consumer found there when it received it.
C32_UsageEventsAreSnapshots ==
    \A i \in 1..Len(mem.delivered) :
        mem.objs[mem.delivered[i].ref] = mem.delivered[i].seen

----------------------------------------------------------------------------
(* Properties of one unary call (InvokeSpec), continued *)

\* C35: the turns the Gemini adapter hands to the chat session, history
\* followed by the message sent, are the request's messages in order, each
\* once.
C35_GeminiTurnsAreMessages ==
    (unary.adapter = "gemini" /\ unary.pc \in {"invoked", "streaming"}) =>
        [i \in 1..Len(unary.turns) |-> unary.turns[i].text]
            = [i \in 1..Len(unary.messages) |-> unary.messages[i].content]

\* C37: a call with an empty message list ends through the normal return
\* path: no adapter faults on it, in the caller's goroutine or the
\* producer's.
C37_EmptyListNoFault ==
    unary.messages = <<>> => unary.pc # "fault"

----------------------------------------------------------------------------
(* Properties of one streaming call (StreamSpec): the Gemini iterator *)

\* the non-empty text parts of the items, in iterator order
RECURSIVE PartsOf(_)
PartsOf(items) ==
    IF items = <<>> THEN <<>>
    ELSE SelectSeq(Head(items).parts, LAMBDA s : s # "") \o PartsOf(Tail(items))

FinishEvents == SelectSeq(emitted, LAMBDA e : e.type = "finish")

\* C36: a Gemini call's Content events carry the non-empty text parts of the
\* items read so far, in order.  When the call has left its loop, either the
\* iterator was exhausted: one FinishReason event was emitted, as the last
\* event, and no error was placed; or the iterator failed: one error was
\* placed and no FinishReason event was emitted.  It ends with both channels
\* closed.
C36_GeminiTermination ==
    adapter = "gemini" =>
        /\ Texts(emitted, "content") = PartsOf(Scanned)
        /\ Len(FinishEvents) <= 1
        /\ ppc = "read" => (FinishEvents = <<>> /\ errsPlaced = <<>>)
        /\ ppc \in {"ret", "ret2", "done"} =>
            \/ /\ errsPlaced = <<>>
               /\ nframes = Len(upstream)
               /\ Len(FinishEvents) = 1
               /\ emitted[Len(emitted)] = FinishEv("stop")
            \/ /\ Len(errsPlaced) = 1
               /\ FinishEvents = <<>>
        /\ ppc = "done" => (respClosed = 1 /\ errClosed = 1)

\* the iterator delivered an item with an empty and a non-empty part and was
\* then exhausted; the call emitted the text, the finish reason and ended
C36_Witness ==
    /\ adapter = "gemini"
    /\ ppc = "done"
    /\ nframes >= 1
    /\ \E k \in 1..nframes : upstream[k] = Item(<<"", "b">>)
    /\ errsPlaced = <<>>
    /\ Len(emitted) >= 2
    /\ emitted[Len(emitted)] = FinishEv("stop")

----------------------------------------------------------------------------
(* Properties of adapter construction (ConfigSpec) *)

\* C38: constructing adapters leaves the caller's Config as it was, and when
\* its BaseURL and DefaultModel are unset every adapter built from it uses
\* its own vendor's default base URL and default model.
C38_ConfigUnchanged ==
    /\ conf.config = conf.orig
    /\ (conf.orig.BaseURL = "" /\ conf.orig.DefaultModel = "") =>
        \A i \in 1..Len(conf.built) :
            LET ad == conf.built[i] IN
            ~ad.nil =>
                /\ ad.vendor # "gemini" => BaseURLOf(ad) = defaultBaseURL(ad.vendor)
                /\ ModelOf(ad) = defaultModel(ad.vendor)

====
